---- MODULE Spec2Model ----
(***************************************************************************)
(* KETI-CT-GUI serial protocol stack: the MUP1 frame codec                 *)
(* (MUP1Protocol), the CoAP client with its stream reassembler and         *)
(* pending-request map (CoAPClient) and the device connection that owns    *)
(* them (DeviceConnection).                                                *)
(***************************************************************************)
EXTENDS Integers, Sequences, FiniteSets, TLC

(***************************************************************************)
(* Bounds of the model.                                                    *)
(***************************************************************************)
\* Largest message-ID of the model. The source wraps at 0xFFFF
\* (coap-client.js:92); the model keeps the wrap rule and narrows the range
\* so that a full wrap-around is reachable.
MaxMid == 2
\* Number of requests accepted on the connection in one behaviour.
MaxRequests == 2
\* Longest payload handed to the frame encoder.
MaxPayloadLen == 2
\* Largest number of bytes delivered by one serial 'data' event.
MaxChunk == 3
\* Number of frames the device sends in a row
MaxArrivals == 2
\* Number of calls of CoAPClient.request followed on one connection
MaxCalls == 6

\* Number of DeviceConnection objects created and of scanDevices calls made
\* in one behaviour.
MaxConns == 2
MaxScans == 2
\* Largest number of path segments and of query items in a request URI.
MaxSegments == 2
MaxQueries == 2
\* Number of requests followed on each of two connections side by side
MaxPeerRequests == 1

(***************************************************************************)
(* MUP1Protocol: constants and tables.                                     *)
(***************************************************************************)
SOF == 62
EOF == 60
ESCAPE == 92

ANNOUNCEMENT == 65
COAP == 67
PING == 80
TRACE == 84
SYSTEM == 83

COMMANDS == {ANNOUNCEMENT, COAP, PING, TRACE, SYSTEM}

\* needsEscape without the test for EOF
needsEscape_NoEof(byte) ==
    byte = 0 \/ byte = 255 \/ byte = 62 \/ byte = 92

needsEscape(byte) ==
    byte = 0 \/ byte = 255 \/ byte = 62 \/ byte = 60 \/ byte = 92

ESCAPE_MAP(byte) ==
    CASE byte = 0   -> 48
      [] byte = 255 -> 70
      [] byte = 62  -> 62
      [] byte = 60  -> 60
      [] byte = 92  -> 92

\* UNESCAPE_MAP[byte] ?? byte
UNESCAPE_MAP(byte) ==
    CASE byte = 48 -> 0
      [] byte = 70 -> 255
      [] byte = 62 -> 62
      [] byte = 60 -> 60
      [] byte = 92 -> 92
      [] OTHER     -> byte

(***************************************************************************)
(* Buffer helpers (0-based indices, as in the source).                     *)
(***************************************************************************)
\* buffer[i], undefined (modelled as -1) outside the buffer
At(buffer, i) == IF i >= 0 /\ i < Len(buffer) THEN buffer[i + 1] ELSE -1

\* buffer.indexOf(byte, from): first index >= from holding byte, else -1
RECURSIVE IndexOf(_, _, _)
IndexOf(buffer, byte, from) ==
    IF from >= Len(buffer) THEN -1
    ELSE IF buffer[from + 1] = byte THEN from
    ELSE IndexOf(buffer, byte, from + 1)

\* buffer.slice(start, end) with 0 <= start, end clamped to the length
Slice(buffer, start, end) ==
    LET e == IF end > Len(buffer) THEN Len(buffer) ELSE end
    IN  IF start >= e THEN <<>> ELSE SubSeq(buffer, start + 1, e)

(***************************************************************************)
(* MUP1Protocol.calculateChecksum                                          *)
(***************************************************************************)
RECURSIVE WordSum(_, _)
WordSum(data, i) ==
    IF i >= Len(data) THEN 0
    ELSE (IF i + 1 < Len(data)
          THEN data[i + 1] * 256 + data[i + 2]
          ELSE data[i + 1] * 256) + WordSum(data, i + 2)

RECURSIVE Fold16(_)
Fold16(sum) ==
    IF sum \div 65536 # 0 THEN Fold16((sum % 65536) + (sum \div 65536)) ELSE sum

calculateChecksum(data) == 65535 - Fold16(WordSum(data, 0))

\* Number.toString(16).toUpperCase().padStart(4, '0'), as character codes
HexDigit(d) == IF d < 10 THEN 48 + d ELSE 55 + d

ChecksumStr(n) ==
    << HexDigit(n \div 4096), HexDigit((n \div 256) % 16),
       HexDigit((n \div 16) % 16), HexDigit(n % 16) >>

(***************************************************************************)
(* MUP1Protocol.encodeFrame                                                *)
(***************************************************************************)
RECURSIVE EscapeData(_)
EscapeData(data) ==
    IF data = <<>> THEN <<>>
    ELSE (IF needsEscape(Head(data))
          THEN <<ESCAPE, ESCAPE_MAP(Head(data))>>
          ELSE <<Head(data)>>) \o EscapeData(Tail(data))

\* the second EOF pushed when the length is odd instead
PadEof_WhenOdd(frame) == IF Len(frame) % 2 = 1 THEN frame \o <<EOF>> ELSE frame

\* the second EOF is pushed when the frame length, first EOF included, is even
PadEof(frame) == IF Len(frame) % 2 = 0 THEN frame \o <<EOF>> ELSE frame

encodeFrame(type, data) ==
    LET frame == PadEof(<<SOF, type>> \o EscapeData(data) \o <<EOF>>)
    IN  frame \o ChecksumStr(calculateChecksum(frame))

createCoapFrame(coapMessage) == encodeFrame(COAP, coapMessage)

createPing == encodeFrame(PING, <<>>)

(***************************************************************************)
(* MUP1Protocol.decodeFrame                                                *)
(***************************************************************************)
\* the while loop of decodeFrame: collects the payload from index i on
RECURSIVE DecodeWalk(_, _, _, _)
DecodeWalk(buffer, i, escaping, data) ==
    IF ~(i < Len(buffer) - 4) THEN data
    ELSE LET byte == buffer[i + 1]
         IN  IF byte = EOF THEN data
             ELSE IF escaping
                  THEN DecodeWalk(buffer, i + 1, FALSE, Append(data, UNESCAPE_MAP(byte)))
             ELSE IF byte = ESCAPE
                  THEN DecodeWalk(buffer, i + 1, TRUE, data)
             ELSE DecodeWalk(buffer, i + 1, FALSE, Append(data, byte))

\* buffer.toString('ascii', s, e).toUpperCase(): the high bit is dropped,
\* lower-case letters are raised
AsciiUpper(b) ==
    LET c == b % 128
    IN  IF c >= 97 /\ c <= 122 THEN c - 32 ELSE c

AsciiUpperStr(bytes) == [k \in 1..Len(bytes) |-> AsciiUpper(bytes[k])]

decodeFrame(buffer) ==
    IF Len(buffer) < 8
    THEN [ok |-> FALSE, error |-> "Frame too short (minimum 8 bytes)"]
    ELSE IF buffer[1] # SOF
    THEN [ok |-> FALSE, error |-> "Invalid start of frame"]
    ELSE LET frameEnd == IndexOf(buffer, EOF, 2)
             double == At(buffer, frameEnd + 1) = EOF
             checksumStart == IF double THEN frameEnd + 2 ELSE frameEnd + 1
             providedChecksum ==
                 AsciiUpperStr(Slice(buffer, checksumStart, checksumStart + 4))
             frameForChecksum ==
                 Slice(buffer, 0, frameEnd + (IF double THEN 2 ELSE 1))
             calculatedChecksum ==
                 ChecksumStr(calculateChecksum(frameForChecksum))
         IN  [ok |-> TRUE,
              type |-> buffer[2],
              data |-> DecodeWalk(buffer, 2, FALSE, <<>>),
              checksum |-> providedChecksum,
              valid |-> providedChecksum = calculatedChecksum]

(***************************************************************************)
(* CoAPClient.parseResponse                                                *)
(***************************************************************************)
\* index just after the first 0xFF at or after offset, data.length if none
PayloadStart(data, offset) ==
    LET marker == IndexOf(data, 255, offset)
    IN  IF marker = -1 THEN Len(data) ELSE marker + 1

\* this.RESPONSE_CODES[code]; "" stands for undefined
RESPONSE_CODES(code) ==
    CASE code = 65 -> "2.01 Created"
      [] code = 66 -> "2.02 Deleted"
      [] code = 67 -> "2.03 Valid"
      [] code = 68 -> "2.04 Changed"
      [] code = 69 -> "2.05 Content"
      [] code = 95 -> "2.31 Continue"
      [] code = 128 -> "4.00 Bad Request"
      [] code = 129 -> "4.01 Unauthorized"
      [] code = 130 -> "4.02 Bad Option"
      [] code = 131 -> "4.03 Forbidden"
      [] code = 132 -> "4.04 Not Found"
      [] code = 133 -> "4.05 Method Not Allowed"
      [] code = 134 -> "4.06 Not Acceptable"
      [] code = 140 -> "4.12 Precondition Failed"
      [] code = 141 -> "4.13 Request Entity Too Large"
      [] code = 143 -> "4.15 Unsupported Content-Format"
      [] code = 160 -> "5.00 Internal Server Error"
      [] code = 161 -> "5.01 Not Implemented"
      [] code = 162 -> "5.02 Bad Gateway"
      [] code = 163 -> "5.03 Service Unavailable"
      [] code = 164 -> "5.04 Gateway Timeout"
      [] code = 165 -> "5.05 Proxying Not Supported"
      [] OTHER -> ""

\* String(n).padStart(2, '0')
PadStart2(str) == IF Len(str) < 2 THEN "0" \o str ELSE str

\* this.RESPONSE_CODES[code] || `${class}.${detail}`
codeName(code) ==
    IF RESPONSE_CODES(code) # "" THEN RESPONSE_CODES(code)
    ELSE ToString(code \div 32) \o "." \o PadStart2(ToString(code % 32))

\* the payload is kept as the bytes handed to the CBOR decoder; <<>> is null
parseResponse(data) ==
    IF Len(data) < 4
    THEN [ok |-> FALSE, error |-> "Invalid CoAP message (too short)"]
    ELSE LET tokenLength == data[1] % 16
             payloadStart == PayloadStart(data, 4 + tokenLength)
         IN  [ok |-> TRUE,
              version |-> (data[1] \div 64) % 4,
              type |-> (data[1] \div 16) % 4,
              code |-> data[2],
              messageId |-> data[3] * 256 + data[4],
              payload |-> IF payloadStart < Len(data)
                          THEN Slice(data, payloadStart, Len(data))
                          ELSE <<>>,
              codeClass |-> data[2] \div 32,
              codeName |-> codeName(data[2])]

(***************************************************************************)
(* CoAPClient.buildMessage, encodeOptions, encodeOptionHeader.             *)
(* A URI is the sequence of its character codes.                           *)
(***************************************************************************)
URI_PATH == 11
CONTENT_FORMAT == 12
URI_QUERY == 15

\* a payload argument of null (no byte sequence holds -1)
Null == <<-1>>

\* String.split(sep): the pieces between the separators, empty ones included
RECURSIVE Split(_, _, _)
Split(str, sep, piece) ==
    IF str = <<>> THEN <<piece>>
    ELSE IF Head(str) = sep
         THEN <<piece>> \o Split(Tail(str), sep, <<>>)
         ELSE Split(Tail(str), sep, Append(piece, Head(str)))

\* Array.filter(s => s): the non-empty pieces
RECURSIVE NonEmpty(_)
NonEmpty(pieces) ==
    IF pieces = <<>> THEN <<>>
    ELSE (IF Head(pieces) = <<>> THEN <<>> ELSE <<Head(pieces)>>) \o
         NonEmpty(Tail(pieces))

\* const [pathPart, queryPart] = uri.split('?'); <<>> stands for undefined
PathPart(uri) == Split(uri, 63, <<>>)[1]

QueryPart(uri) ==
    LET parts == Split(uri, 63, <<>>)
    IN  IF Len(parts) >= 2 THEN parts[2] ELSE <<>>

PathSegments(uri) == NonEmpty(Split(PathPart(uri), 47, <<>>))

QueryItems(uri) == NonEmpty(Split(QueryPart(uri), 38, <<>>))

\* the 4-bit value and the extension bytes of a delta or a length
OptionNibble(n) == IF n < 13 THEN n ELSE IF n < 269 THEN 13 ELSE 14

OptionExt(n) ==
    IF n < 13 THEN <<>>
    ELSE IF n < 269 THEN <<n - 13>>
    ELSE <<((n - 269) \div 256) % 256, (n - 269) % 256>>

encodeOptionHeader(delta, length) ==
    <<OptionNibble(delta) * 16 + OptionNibble(length)>> \o
    OptionExt(delta) \o OptionExt(length)

\* the delta of an option: its number minus the number of the option before
OptionDelta_Absolute(optionNum, prevOptionNum) == optionNum

OptionDelta(optionNum, prevOptionNum) == optionNum - prevOptionNum

\* the options of one kind (all Uri-Path or all Uri-Query), in order
RECURSIVE EncodeValues(_, _, _)
EncodeValues(values, optionNum, prevOptionNum) ==
    IF values = <<>> THEN <<>>
    ELSE encodeOptionHeader(OptionDelta(optionNum, prevOptionNum),
                            Len(Head(values))) \o
         [k \in 1..Len(Head(values)) |-> Head(values)[k] % 256] \o
         EncodeValues(Tail(values), optionNum, optionNum)

encodeOptions(uri) ==
    LET segments == PathSegments(uri)
        queries == QueryItems(uri)
        afterPath == IF segments = <<>> THEN 0 ELSE URI_PATH
    IN  EncodeValues(segments, URI_PATH, 0) \o
        encodeOptionHeader(OptionDelta(CONTENT_FORMAT, afterPath), 2) \o
        <<1, 4>> \o
        EncodeValues(queries, URI_QUERY, CONTENT_FORMAT)

\* the four header bytes with the message-ID low byte first
Header_LittleEndian(methodCode, mid) ==
    <<64, methodCode, mid % 256, (mid \div 256) % 256>>

\* version 1, type 0 (CON), token length 0; code; message-ID big-endian
Header(methodCode, mid) ==
    <<64, methodCode, (mid \div 256) % 256, mid % 256>>

\* payload is Null or the bytes of the CBOR encoding handed on
buildMessage(methodCode, uri, payload, mid) ==
    Header(methodCode, mid) \o encodeOptions(uri) \o
    (IF payload = Null THEN <<>> ELSE <<255>> \o payload)

(***************************************************************************)
(* CoAPClient: the pending-request map and the waiters.                    *)
(*   pendingRequests : message-ID -> index in reqs of the request whose    *)
(*                     resolve/reject/timeout handle the entry holds       *)
(*   reqs            : one record per request accepted by request(); the   *)
(*                     promise (waiter), the number of resolve/reject      *)
(*                     calls made on it, and its timeout handle            *)
(***************************************************************************)
VARIABLES
    serial,           \* DeviceConnection.serial: "null", "opening", "open", "closed"
    connected,        \* DeviceConnection.connected
    messageId,        \* CoAPClient.messageId
    pendingRequests,  \* CoAPClient.pendingRequests
    reqs,             \* the promises created by CoAPClient.request
    receiveBuffer,    \* CoAPClient.receiveBuffer
    rxStream,         \* bytes the serial device has yet to deliver
    rxFed,            \* bytes delivered so far by 'data' events
    dispatched,       \* frames handleData has decoded and acted on, in order
    codec,            \* the frame codec driven on one (type, payload) input
    pingTimer,        \* the 500 ms timer set by the open callback
    queryTimer,       \* the 1000 ms timer set by connectDevice
    written,          \* every serial.write: the frame, and whether the port was open
    build,            \* buildMessage driven on one (method, uri, payload, id) input
    parse,            \* parseResponse driven on one message
    calls,            \* the calls of CoAPClient.request: the ID taken, the error thrown
    listing,          \* the serial device paths readdirSync('/dev') returns
    devices,          \* DeviceManager.devices: path -> index in conns
    conns,            \* the DeviceConnection objects created so far
    scans,            \* the calls of scanDevices, finished ones included
    scanInterval,     \* DeviceManager.scanInterval: a timer of intervals, 0 for null
    intervals,        \* the timers made by setInterval: "armed" or "cleared"
    down,             \* shutdown() has run
    executed,         \* the latest call of executeRequest and the error it threw
    info,             \* a call of parseDeviceInfo: the tree, deviceInfo before and after
    peers             \* the CoAP clients of several connections side by side

vars == << serial, connected, messageId, pendingRequests, reqs, receiveBuffer,
           rxStream, rxFed, dispatched, codec, pingTimer, queryTimer, written,
           build, parse, calls, listing,
           devices, conns, scans, scanInterval, intervals, down, executed,
           info, peers >>

connVars == << serial, connected >>
trackerVars == << messageId, pendingRequests, reqs >>
streamVars == << rxStream, rxFed, dispatched >>
wireVars == << pingTimer, queryTimer, written >>
regVars == << listing, devices, conns, scans, scanInterval, intervals, down, executed >>

NoExecute == [path |-> "", error |-> "none"]

NoResult == [kind |-> "none", code |-> 0, name |-> "", method |-> "", uri |-> "",
             payload |-> <<>>]

\* this.METHODS[method.toUpperCase()]; 0 stands for undefined
ToUpperCase(method) ==
    CASE method = "get" -> "GET"
      [] method = "post" -> "POST"
      [] OTHER -> method

\* the lookup falling back to GET for a name it does not know
METHODS_Default(name) == 1

METHODS(name) ==
    CASE name = "GET" -> 1
      [] name = "POST" -> 2
      [] name = "PUT" -> 3
      [] name = "DELETE" -> 4
      [] name = "FETCH" -> 5
      [] name = "PATCH" -> 6
      [] name = "IPATCH" -> 7
      [] OTHER -> 0

\* Map.set / Map.delete on a function with a finite domain
MapSet(map, key, value) ==
    [k \in DOMAIN map \cup {key} |-> IF k = key THEN value ELSE map[k]]

MapDelete(map, key) == [k \in DOMAIN map \ {key} |-> map[k]]

EmptyMap == [k \in {} |-> 0]

\* a call of resolve or reject on the promise of request i: only the first
\* call settles the promise, every call is counted
Settle(rs, i, how, result) ==
    [rs EXCEPT ![i] = [@ EXCEPT
        !.waiter = IF @ = "pending" THEN how ELSE @,
        !.result = IF rs[i].waiter = "pending" THEN result ELSE @,
        !.calls = @ + 1]]

\* the counter wrapping to 0 instead of 1
NextMessageId_WrapToZero(id) == IF id + 1 > MaxMid THEN 0 ELSE id + 1

\* this.messageId++ ; if (this.messageId > 0xFFFF) this.messageId = 1
NextMessageId(id) == IF id + 1 > MaxMid THEN 1 ELSE id + 1

\* CoAPClient.request once the method is known: the entry is stored under
\* mid with Map.set, the timer is armed
RecordPending(pending, rs, mid, method, uri) ==
    [pending |-> MapSet(pending, mid, Len(rs) + 1),
     reqs |-> Append(rs, [mid |-> mid, method |-> method, uri |-> uri,
                          waiter |-> "pending", result |-> NoResult,
                          calls |-> 0, timer |-> "armed"])]

\* the setTimeout callback of request i
TimeoutHandler(pending, rs, i) ==
    LET mid == rs[i].mid
        fired == [rs EXCEPT ![i].timer = "fired"]
    IN  IF mid \in DOMAIN pending
        THEN [pending |-> MapDelete(pending, mid),
              reqs |-> Settle(fired, i, "rejected",
                              [NoResult EXCEPT !.kind = "RequestTimeout",
                                               !.method = rs[i].method,
                                               !.uri = rs[i].uri])]
        ELSE [pending |-> pending, reqs |-> fired]

\* handleCoapResponse with the lookup replaced by "the oldest pending entry":
\* correlation by arrival order instead of by message-ID
handleCoapResponse_Fifo(pending, rs, data) ==
    LET response == parseResponse(data)
    IN  IF ~response.ok \/ DOMAIN pending = {} THEN [pending |-> pending, reqs |-> rs]
        ELSE LET key == CHOOSE k \in DOMAIN pending :
                            \A j \in DOMAIN pending : pending[k] <= pending[j]
                 i == pending[key]
                 cleared == [rs EXCEPT ![i].timer =
                                IF @ = "armed" THEN "cancelled" ELSE @]
             IN  [pending |-> MapDelete(pending, key),
                  reqs |-> Settle(cleared, i, "resolved",
                                  [NoResult EXCEPT !.kind = "payload",
                                                   !.payload = response.payload])]

\* handleCoapResponse without the test of the code class: every matched
\* response resolves the waiter
handleCoapResponse_ResolveAll(pending, rs, data) ==
    LET response == parseResponse(data)
    IN  IF ~response.ok THEN [pending |-> pending, reqs |-> rs]
        ELSE IF response.messageId \notin DOMAIN pending
        THEN [pending |-> pending, reqs |-> rs]
        ELSE LET i == pending[response.messageId]
                 cleared == [rs EXCEPT ![i].timer =
                                IF @ = "armed" THEN "cancelled" ELSE @]
             IN  [pending |-> MapDelete(pending, response.messageId),
                  reqs |-> Settle(cleared, i, "resolved",
                                  [NoResult EXCEPT !.kind = "payload",
                                                   !.payload = response.payload])]

\* CoAPClient.handleCoapResponse
handleCoapResponse(pending, rs, data) ==
    LET response == parseResponse(data)
    IN  IF ~response.ok THEN [pending |-> pending, reqs |-> rs]
        ELSE IF response.messageId \notin DOMAIN pending
        THEN [pending |-> pending, reqs |-> rs]
        ELSE LET i == pending[response.messageId]
                 cleared == [rs EXCEPT ![i].timer =
                                IF @ = "armed" THEN "cancelled" ELSE @]
             IN  [pending |-> MapDelete(pending, response.messageId),
                  reqs |-> IF response.codeClass = 2
                           THEN Settle(cleared, i, "resolved",
                                       [NoResult EXCEPT !.kind = "payload",
                                                        !.payload = response.payload])
                           ELSE Settle(cleared, i, "rejected",
                                       [NoResult EXCEPT !.kind = "CoapError",
                                                        !.code = response.code,
                                                        !.name = response.codeName,
                                                        !.payload = response.payload])]

(***************************************************************************)
(* CoAPClient.handleData: the reassembly loop.                             *)
(***************************************************************************)
\* the while loop: returns the buffer left over and the decodeFrame result
\* of every candidate frame sliced off, in order
RECURSIVE FrameLoop(_, _)
FrameLoop(buffer, out) ==
    IF Len(buffer) = 0 THEN [buffer |-> buffer, frames |-> out]
    ELSE LET sofIndex == IndexOf(buffer, SOF, 0)
         IN  IF sofIndex = -1 THEN [buffer |-> <<>>, frames |-> out]
             ELSE LET b == IF sofIndex > 0
                           THEN Slice(buffer, sofIndex, Len(buffer))
                           ELSE buffer
                      eofIndex == IndexOf(b, EOF, 2)
                      hasDoubleEof == At(b, eofIndex + 1) = EOF
                      checksumStart == IF hasDoubleEof THEN eofIndex + 2
                                       ELSE eofIndex + 1
                      frameEnd == checksumStart + 4
                  IN  IF Len(b) < 8 THEN [buffer |-> b, frames |-> out]
                      ELSE IF eofIndex = -1 THEN [buffer |-> b, frames |-> out]
                      ELSE IF Len(b) < frameEnd THEN [buffer |-> b, frames |-> out]
                      ELSE FrameLoop(Slice(b, frameEnd, Len(b)),
                                     Append(out, decodeFrame(Slice(b, 0, frameEnd))))

\* what the try block does with one decodeFrame result: "coap", "announcement",
\* "trace", or "none" (decode threw, or a type the code has no branch for)
DispatchKind(decoded) ==
    IF ~decoded.ok THEN "none"
    ELSE CASE decoded.type = 67 -> "coap"
           [] decoded.type = 65 -> "announcement"
           [] decoded.type = 84 -> "trace"
           [] OTHER -> "none"

\* the frames of a handleData call that were acted on
Dispatches(frames) ==
    SelectSeq(frames, LAMBDA d : DispatchKind(d) # "none")

\* the CoAP responses of a handleData call applied to the pending map in order
RECURSIVE ApplyFrames(_, _, _)
ApplyFrames(pending, rs, frames) ==
    IF frames = <<>> THEN [pending |-> pending, reqs |-> rs]
    ELSE LET d == Head(frames)
             next == IF DispatchKind(d) = "coap"
                     THEN handleCoapResponse(pending, rs, d.data)
                     ELSE [pending |-> pending, reqs |-> rs]
         IN  ApplyFrames(next.pending, next.reqs, Tail(frames))

\* handleData with the new chunk put in front of the bytes kept so far
handleData_NewestFirst(buffer, data) == FrameLoop(data \o buffer, <<>>)

\* handleData without the Buffer.concat: each chunk is framed on its own
handleData_NoConcat(buffer, data) == FrameLoop(data, <<>>)

handleData(buffer, data) == FrameLoop(buffer \o data, <<>>)

(***************************************************************************)
(* Inputs of the model.                                                    *)
(***************************************************************************)
\* method names callers pass to request: a known one and an unknown one
MethodInputs == {"GET", "BREW"}
UriInputs == {"/c"}

\* payload bytes: the five bytes that need escaping, a letter an escape maps
\* to, and an ordinary byte
PayloadBytes == {0, 255, 62, 60, 92, 48, 65}

RECURSIVE SeqsUpTo(_, _)
SeqsUpTo(S, n) ==
    IF n = 0 THEN {<<>>}
    ELSE LET shorter == SeqsUpTo(S, n - 1)
         IN  shorter \cup {Append(q, x) : q \in {t \in shorter : Len(t) = n - 1}, x \in S}

Payloads == SeqsUpTo(PayloadBytes, MaxPayloadLen)

\* CoAP response headers (ACK, TKL 0): 2.05 Content and 4.04 Not Found
ResponseCodes == {69, 132}

\* a response to message-ID mid: header, then the payload marker and the
\* payload when there is one
ResponseMessage(code, mid, body) ==
    <<96, code, mid \div 256, mid % 256>> \o
    (IF body = <<>> THEN <<>> ELSE <<255>> \o body)

\* the payload the device sends with each response code
ResponseBody(code) == IF code = 69 THEN <<24>> ELSE <<>>

\* a frame whose last checksum character is replaced by another hex digit
CorruptChecksum(frame) ==
    [frame EXCEPT ![Len(frame)] = IF @ = 48 THEN 49 ELSE 48]

\* frames the device sends while requests are in flight
\* the frame the device sends to answer message-ID m with code c
ResponseFrame ==
    [c \in ResponseCodes, m \in 0..MaxMid |->
        createCoapFrame(ResponseMessage(c, m, ResponseBody(c)))]

ResponseFrames == {ResponseFrame[c, m] : c \in ResponseCodes, m \in 0..MaxMid}

\* responses damaged on the wire: the checksum no longer matches
CorruptFrames == {CorruptChecksum(ResponseFrame[69, m]) : m \in 1..MaxMid}

InboundFrames == ResponseFrames \cup CorruptFrames

\* inputs of the frame codec
CodecInputs == {[type |-> t, payload |-> p] : t \in COMMANDS, p \in Payloads}

\* CoAP messages whose bytes include bytes that need escaping
StreamMids == {1, 60, 92, 255, 15360}
CoapMessages ==
    {ResponseMessage(69, m, b) : m \in StreamMids, b \in {<<>>, <<24>>, <<60, 1>>}}

CoapFrames == {createCoapFrame(m) : m \in CoapMessages}

\* a damaged frame followed by an intact one
FollowedFrames ==
    {CorruptChecksum(createCoapFrame(ResponseMessage(69, 1, b))) \o
     createCoapFrame(ResponseMessage(132, 2, <<>>)) : b \in {<<>>, <<24>>}}

\* byte streams the serial device delivers
Streams ==
    {encodeFrame(i.type, i.payload) : i \in CodecInputs} \cup CoapFrames \cup
    {CorruptChecksum(f) : f \in CoapFrames} \cup FollowedFrames

\* what the device sends while requests are in flight: the 2.05 response to
\* message-ID 1, the 4.04 response to message-ID 2, and an announcement
ArrivalInputs ==
    {[type |-> COAP, data |-> ResponseMessage(69, 1, <<24>>)],
     [type |-> COAP, data |-> ResponseMessage(132, 2, <<>>)],
     [type |-> ANNOUNCEMENT, data |-> <<65>>]}

\* the sequences of frames the device sends, and the bytes of each
Arrivals == SeqsUpTo(ArrivalInputs, MaxArrivals)

RECURSIVE FrameBytes(_)
FrameBytes(arrival) ==
    IF arrival = <<>> THEN <<>>
    ELSE encodeFrame(Head(arrival).type, Head(arrival).data) \o
         FrameBytes(Tail(arrival))

ArrivalBytes == [a \in Arrivals |-> FrameBytes(a)]

\* pos is the index of the byte of the frame changed in transit, -1 if none
IdleCodec == [pc |-> "idle", type |-> 0, payload |-> <<>>, frame |-> <<>>,
              pos |-> -1, decoded |-> [ok |-> FALSE, error |-> "none"]]

\* frames that are damaged in transit: payloads over '>', '%' and 'A', and
\* the values a byte is changed to
MutationInputs ==
    {[type |-> t, payload |-> p] :
        t \in COMMANDS, p \in SeqsUpTo({62, 37, 65}, MaxPayloadLen)}

MutationBytes == {0, 52, 60, 65, 92}

\* path segments: "c" and the 13 characters of "ieee802-dot1q", the shortest
\* length that needs an extended option length
SegmentInputs ==
    {<<99>>, <<105, 101, 101, 101, 56, 48, 50, 45, 100, 111, 116, 49, 113>>}

\* query items: "d=a" and "c=n"
QueryInputs == {<<100, 61, 97>>, <<99, 61, 110>>}

RECURSIVE JoinWith(_, _)
JoinWith(pieces, sep) ==
    IF pieces = <<>> THEN <<>>
    ELSE IF Len(pieces) = 1 THEN Head(pieces)
    ELSE Head(pieces) \o <<sep>> \o JoinWith(Tail(pieces), sep)

RECURSIVE SlashEach(_)
SlashEach(segments) ==
    IF segments = <<>> THEN <<>>
    ELSE <<47>> \o Head(segments) \o SlashEach(Tail(segments))

\* "/seg/seg?item&item"
JoinUri(segments, queries) ==
    SlashEach(segments) \o
    (IF queries = <<>> THEN <<>> ELSE <<63>> \o JoinWith(queries, 38))

\* URIs written in the regular way, with the segments and items they name
RegularUris ==
    {[uri |-> JoinUri(sg, qs), segments |-> sg, queries |-> qs] :
        sg \in SeqsUpTo(SegmentInputs, MaxSegments),
        qs \in SeqsUpTo(QueryInputs, MaxQueries)}

\* "/", "//c/", "/c?", "/c?d=a?c=n" and "/c?&d=a&&"
OddUris ==
    {[uri |-> <<47>>, segments |-> <<>>, queries |-> <<>>],
     [uri |-> <<47, 47, 99, 47>>, segments |-> <<(<<99>>)>>, queries |-> <<>>],
     [uri |-> <<47, 99, 63>>, segments |-> <<(<<99>>)>>, queries |-> <<>>],
     [uri |-> <<47, 99, 63, 100, 61, 97, 63, 99, 61, 110>>,
      segments |-> <<(<<99>>)>>, queries |-> <<(<<100, 61, 97>>)>>],
     [uri |-> <<47, 99, 63, 38, 100, 61, 97, 38, 38>>,
      segments |-> <<(<<99>>)>>, queries |-> <<(<<100, 61, 97>>)>>]}

UriCases == RegularUris \cup OddUris

\* GET and FETCH; no payload or one CBOR byte; three message-IDs
BuildInputs ==
    {[methodCode |-> mc, uri |-> u.uri, payload |-> pl, mid |-> m] :
        mc \in {1, 5}, u \in UriCases, pl \in {Null, <<24>>},
        m \in {0, 4660, 65535}}

IdleBuild == [pc |-> "idle", methodCode |-> 0, uri |-> <<>>, payload |-> Null,
              mid |-> 0, message |-> <<>>]

\* messages handed to parseResponse: every code byte, with and without a
\* payload, and two messages shorter than a header
ParseInputs ==
    {ResponseMessage(code, mid, body) :
        code \in 0..255, mid \in {1, 4660}, body \in {<<>>, <<24>>}} \cup
    {<<>>, <<96, 69, 18>>}

IdleParse == [pc |-> "idle", data |-> <<>>,
              response |-> [ok |-> FALSE, error |-> "none"]]

(***************************************************************************)
(* DeviceConnection.parseDeviceInfo. A JavaScript object is a function     *)
(* from the keys it has; a key it lacks is outside the domain.             *)
(***************************************************************************)
\* obj[key] is neither undefined nor the empty string
Truthy(obj, key) == key \in DOMAIN obj /\ obj[key] # ""

\* obj[key] || fallback, for string values
OrElse(obj, key, fallback) == IF Truthy(obj, key) THEN obj[key] ELSE fallback

\* interfaces.interface.map(...)
InterfaceEntry(iface) ==
    [name |-> iface.name, type |-> iface.type,
     enabled |-> iface.adminState = "up", operStatus |-> iface.operState]

\* bridges.bridge.map(...)
BridgeEntry(br) ==
    [name |-> br.name, address |-> br.address, components |-> Len(br.component)]

\* this.deviceInfo as the DeviceConnection constructor leaves it, reduced to
\* the fields parseDeviceInfo writes: it has no bridges key
ConstructedInfo ==
    [model |-> "Unknown", firmware |-> "Unknown", serialNumber |-> "Unknown",
     interfaces |-> <<>>]

\* deviceInfo.key = value, which makes the key when it is not there
SetField(obj, key, value) ==
    [k \in DOMAIN obj \cup {key} |-> IF k = key THEN value ELSE obj[k]]

parseDeviceInfo(deviceInfo, yangData) ==
    LET afterSystem ==
            IF "ietf-system:system-state" \in DOMAIN yangData
            THEN LET systemState == yangData["ietf-system:system-state"]
                 IN  IF "platform" \in DOMAIN systemState
                     THEN LET platform == systemState["platform"]
                          IN  [deviceInfo EXCEPT
                                 !.model = OrElse(platform, "os-name", "LAN9662"),
                                 !.firmware = OrElse(platform, "os-version", "Unknown"),
                                 !.serialNumber = OrElse(platform, "machine", "Unknown")]
                     ELSE deviceInfo
            ELSE deviceInfo
        afterInterfaces ==
            IF "ietf-interfaces:interfaces" \in DOMAIN yangData
            THEN LET interfaces == yangData["ietf-interfaces:interfaces"]
                 IN  IF "interface" \in DOMAIN interfaces
                     THEN [afterSystem EXCEPT !.interfaces =
                             [k \in 1..Len(interfaces["interface"]) |->
                                 InterfaceEntry(interfaces["interface"][k])]]
                     ELSE afterSystem
            ELSE afterSystem
    IN  IF "ieee802-dot1q-bridge:bridges" \in DOMAIN yangData
        THEN LET bridges == yangData["ieee802-dot1q-bridge:bridges"]
             IN  IF "bridge" \in DOMAIN bridges
                 THEN SetField(afterInterfaces, "bridges",
                               [k \in 1..Len(bridges["bridge"]) |->
                                   BridgeEntry(bridges["bridge"][k])])
                 ELSE afterInterfaces
        ELSE afterInterfaces

\* the keys of the platform container and the values the device reports
PlatformKeys == {"os-name", "os-version", "machine"}
FullPlatform ==
    [k \in PlatformKeys |->
        CASE k = "os-name" -> "VelocitySP"
          [] k = "os-version" -> "2024.06"
          [] k = "machine" -> "lan9662"]

Platforms == {[k \in S |-> FullPlatform[k]] : S \in SUBSET PlatformKeys}

\* an object with one key, and the object with none
Only(key, value) == [k \in {key} |-> value]
NoKeys == [k \in {} |-> ""]

\* the system-state container: with a platform, or without
SystemStates == {NoKeys} \cup {Only("platform", pf) : pf \in Platforms}

InterfaceLists ==
    {<<>>, <<[name |-> "eth0", type |-> "ethernetCsmacd", adminState |-> "up",
              operState |-> "down"]>>}
BridgeLists ==
    {<<>>, <<[name |-> "b0", address |-> "00-01-C1-00-00-00",
              component |-> <<"c0">>]>>}

\* the parts a tree is put together from: each top-level key is absent, or
\* present with a container that may lack its list
SystemParts == {NoKeys} \cup {Only("ietf-system:system-state", ss) : ss \in SystemStates}
InterfaceParts ==
    {NoKeys, Only("ietf-interfaces:interfaces", NoKeys)} \cup
    {Only("ietf-interfaces:interfaces", Only("interface", l)) : l \in InterfaceLists}
BridgeParts ==
    {NoKeys, Only("ieee802-dot1q-bridge:bridges", NoKeys)} \cup
    {Only("ieee802-dot1q-bridge:bridges", Only("bridge", l)) : l \in BridgeLists}

\* the union of three objects with different keys
Merge(a, b, c) ==
    [k \in DOMAIN a \cup DOMAIN b \cup DOMAIN c |->
        IF k \in DOMAIN a THEN a[k] ELSE IF k \in DOMAIN b THEN b[k] ELSE c[k]]

\* the trees a query returns
Trees == {Merge(a, b, c) : a \in SystemParts, b \in InterfaceParts, c \in BridgeParts}

\* deviceInfo as an earlier query of another firmware left it
QueriedInfo ==
    [model |-> "LAN9668", firmware |-> "2023.12", serialNumber |-> "lan9668",
     interfaces |-> <<[name |-> "eth1", type |-> "ethernetCsmacd",
                       enabled |-> FALSE, operStatus |-> "up"]>>,
     bridges |-> <<[name |-> "b1", address |-> "00-01-C1-00-00-01",
                    components |-> 0]>>]

IdleInfo == [pc |-> "idle", yangData |-> NoKeys, before |-> ConstructedInfo,
             deviceInfo |-> ConstructedInfo]

(***************************************************************************)
(* DeviceConnection and CoAPClient as a state machine.                     *)
(***************************************************************************)
Init ==
    /\ serial = "null"
    /\ connected = FALSE
    /\ messageId = 0
    /\ pendingRequests = EmptyMap
    /\ reqs = <<>>
    /\ receiveBuffer = <<>>
    /\ rxStream = <<>>
    /\ rxFed = <<>>
    /\ dispatched = <<>>
    /\ codec = IdleCodec
    /\ pingTimer = "none"
    /\ queryTimer = "none"
    /\ written = <<>>
    /\ build = IdleBuild
    /\ parse = IdleParse
    /\ calls = <<>>
    /\ info = IdleInfo
    /\ peers = <<>>
    /\ listing = {}
    /\ devices = EmptyMap
    /\ conns = <<>>
    /\ scans = <<>>
    /\ scanInterval = 0
    /\ intervals = <<>>
    /\ down = FALSE
    /\ executed = NoExecute

\* DeviceConnection.isConnected
isConnected == connected /\ serial = "open"

\* DeviceConnection.connect up to the call of serial.open
Connect ==
    /\ serial = "null"
    /\ serial' = "opening"
    /\ UNCHANGED << connected, trackerVars, receiveBuffer, streamVars, codec,
                    wireVars, build, parse, calls, info, peers, regVars >>

\* the open callback without error: the CoAPClient is constructed with a
\* random message-ID, the serial handlers are registered and the ping timer
\* is set; connect() resolves and connectDevice, resumed in the same turn of
\* the event loop, sets the timer of the device-info query
OpenOk(id) ==
    /\ serial = "opening"
    /\ serial' = "open"
    /\ connected' = TRUE
    /\ messageId' = id
    /\ pendingRequests' = EmptyMap
    /\ receiveBuffer' = <<>>
    /\ pingTimer' = "armed"
    /\ queryTimer' = "armed"
    /\ UNCHANGED << reqs, streamVars, codec, written, build, parse, calls, info, peers, regVars >>

\* the open callback with an error
OpenErr ==
    /\ serial = "opening"
    /\ serial' = "closed"
    /\ UNCHANGED << connected, trackerVars, receiveBuffer, streamVars, codec,
                    wireVars, build, parse, calls, info, peers, regVars >>

\* serial.on('error')
SerialError ==
    /\ serial = "open"
    /\ connected' = FALSE
    /\ UNCHANGED << serial, trackerVars, receiveBuffer, streamVars, codec,
                    wireVars, build, parse, calls, info, peers, regVars >>

\* serial.on('close'): the port closed under the connection
SerialClose ==
    /\ serial = "open"
    /\ serial' = "closed"
    /\ connected' = FALSE
    /\ UNCHANGED << trackerVars, receiveBuffer, streamVars, codec,
                    wireVars, build, parse, calls, info, peers, regVars >>

\* DeviceConnection.disconnect (called by disconnectDevice and shutdown)
Disconnect ==
    /\ serial \in {"open", "closed"}
    /\ serial' = "closed"
    /\ connected' = FALSE
    /\ UNCHANGED << trackerVars, receiveBuffer, streamVars, codec,
                    wireVars, build, parse, calls, info, peers, regVars >>

\* the characters of the URIs the callers pass
UriChars(uri) ==
    CASE uri = "/c" -> <<47, 99>>
      [] uri = "/c?d=a" -> <<47, 99, 63, 100, 61, 97>>

\* CoAPClient.request: the message-ID is taken, the method looked up
\* (unknown: throws), the message built and framed, the waiter recorded and
\* the frame written to the serial handle
Request(method, uri) ==
    LET mid == messageId
        methodCode == METHODS(ToUpperCase(method))
        message == buildMessage(methodCode, UriChars(uri), Null, mid)
        frame == createCoapFrame(message)
        rec == RecordPending(pendingRequests, reqs, mid, method, uri)
    IN  /\ messageId' = NextMessageId(messageId)
        /\ IF methodCode = 0
           THEN UNCHANGED << pendingRequests, reqs, written >>
           ELSE /\ Len(reqs) < MaxRequests
                /\ pendingRequests' = rec.pending
                /\ reqs' = rec.reqs
                /\ written' = Append(written, frame)

\* DeviceManager.executeRequest on this connection
ExecuteRequest(method, uri) ==
    /\ isConnected
    /\ Request(method, uri)
    /\ UNCHANGED << connVars, receiveBuffer, streamVars, codec,
                    pingTimer, queryTimer, build, parse, calls, info, peers, regVars >>

\* the timeout callback of request i fires
TimerFires(i) ==
    /\ reqs[i].timer = "armed"
    /\ LET t == TimeoutHandler(pendingRequests, reqs, i)
       IN  /\ pendingRequests' = t.pending
           /\ reqs' = t.reqs
    /\ UNCHANGED << connVars, messageId, receiveBuffer, streamVars, codec,
                    wireVars, build, parse, calls, info, peers, regVars >>

\* serial.on('data') -> CoAPClient.handleData: reassembly, decode, dispatch
DataEvent(chunk) ==
    LET r == handleData(receiveBuffer, chunk)
        t == ApplyFrames(pendingRequests, reqs, r.frames)
    IN  /\ UNCHANGED messageId
        /\ receiveBuffer' = r.buffer
        /\ pendingRequests' = t.pending
        /\ reqs' = t.reqs

\* the device sends one whole frame, delivered by one 'data' event
SerialData(frame) ==
    /\ serial = "open"
    /\ UNCHANGED << connVars, streamVars, codec, wireVars, build, parse, calls, info, peers, regVars >>
    /\ DataEvent(frame)

Next ==
    \/ Connect
    \/ \E id \in 0..(MaxMid - 1) : OpenOk(id)
    \/ OpenErr
    \/ SerialError
    \/ SerialClose
    \/ Disconnect
    \/ \E m \in MethodInputs, u \in UriInputs : ExecuteRequest(m, u)
    \/ \E i \in 1..Len(reqs) : TimerFires(i)
    \/ \E f \in InboundFrames : SerialData(f)

Spec == Init /\ [][Next]_vars

(***************************************************************************)
(* The connection with its two delayed timers: the ping the open callback  *)
(* schedules and the device-info query connectDevice schedules.            *)
(***************************************************************************)
\* the callback of the 500 ms timer: serial.write(createPing())
SendPing ==
    /\ pingTimer = "armed"
    /\ pingTimer' = "fired"
    /\ written' = Append(written, createPing)
    /\ UNCHANGED << connVars, trackerVars, receiveBuffer, streamVars, codec,
                    queryTimer, build, parse, calls, info, peers, regVars >>

\* the callback of the 1000 ms timer: device.queryDeviceInfo(), which is
\* coap.get('/c?d=a'), which is request('GET', '/c?d=a')
QueryDeviceInfo ==
    /\ queryTimer = "armed"
    /\ queryTimer' = "fired"
    /\ Request("GET", "/c?d=a")
    /\ UNCHANGED << connVars, receiveBuffer, streamVars, codec, pingTimer,
                    build, parse, calls, info, peers, regVars >>

WireNext ==
    \/ Next
    \/ SendPing
    \/ QueryDeviceInfo

WireSpec == Init /\ [][WireNext]_vars

(***************************************************************************)
(* The entry point of the tracker on its own: an open connection whose     *)
(* client was constructed with a random message-ID, and a caller that      *)
(* calls request again and again; calls keeps, for each call, the ID it    *)
(* took and the error it threw.                                            *)
(***************************************************************************)
CallInit ==
    /\ serial = "open"
    /\ connected = TRUE
    /\ messageId \in 0..(MaxMid - 1)
    /\ pendingRequests = EmptyMap
    /\ reqs = <<>>
    /\ receiveBuffer = <<>>
    /\ rxStream = <<>>
    /\ rxFed = <<>>
    /\ dispatched = <<>>
    /\ codec = IdleCodec
    /\ pingTimer = "armed"
    /\ queryTimer = "armed"
    /\ written = <<>>
    /\ build = IdleBuild
    /\ parse = IdleParse
    /\ calls = <<>>
    /\ info = IdleInfo
    /\ peers = <<>>
    /\ listing = {}
    /\ devices = EmptyMap
    /\ conns = <<>>
    /\ scans = <<>>
    /\ scanInterval = 0
    /\ intervals = <<>>
    /\ down = FALSE
    /\ executed = NoExecute

\* what request throws: `Unknown CoAP method: ${method}`, or nothing
RequestError(method) ==
    IF METHODS(ToUpperCase(method)) = 0 THEN "Unknown CoAP method" ELSE "none"

\* one call of CoAPClient.request
CallRequest(method, uri) ==
    /\ Len(calls) < MaxCalls
    /\ Request(method, uri)
    /\ calls' = Append(calls, [method |-> method, uri |-> uri, mid |-> messageId,
                               error |-> RequestError(method)])
    /\ UNCHANGED << connVars, receiveBuffer, streamVars, codec,
                    pingTimer, queryTimer, build, parse, info, peers, regVars >>

\* the method names the caller passes: also a known one in lower case
CallMethods == MethodInputs \cup {"get"}

CallNext == \E m \in CallMethods, u \in UriInputs : CallRequest(m, u)

CallSpec == CallInit /\ [][CallNext]_vars

(***************************************************************************)
(* DeviceManager: the registry (devices), the scans and the connections    *)
(* they create. A step is one turn of the event loop: a call from outside  *)
(* or a callback, run up to the point where every async function it        *)
(* entered or resumed is suspended on an await or has returned. What goes  *)
(* on inside a connection (its CoAP client and its timers) is the subject  *)
(* of Spec and WireSpec and is left out here.                              *)
(*   conns[c] : path, serial ("opening", "open", "closed"), connected, and *)
(*              by, the scan whose connectDevice created it (0: the API),  *)
(*              writes, the frames executeRequest had its client write,    *)
(*              and outcome, what the connectDevice that created it gave   *)
(*              its caller ("pending", "info" returned, "error" thrown)    *)
(*   scans[k] : ttyDevices (the listing the scan read), i (the index of    *)
(*              the path its loop is at), conn (the connection it awaits), *)
(*              pc ("run", "await", "done", "failed"), and for the record  *)
(*              attempted (paths it called connectDevice for), known       *)
(*              (paths it found in the registry) and stale (registry       *)
(*              paths that were missing from its listing when it started)  *)
(***************************************************************************)
Paths == {"/dev/ttyACM0", "/dev/ttyACM1"}

PathOrder == <<"/dev/ttyACM0", "/dev/ttyACM1">>

\* files.filter(...).map(...).sort()
SortedListing(present) == SelectSeq(PathOrder, LAMBDA p : p \in present)

Range(seq) == {seq[k] : k \in 1..Len(seq)}

nonRegVars == << connVars, trackerVars, receiveBuffer, streamVars, codec,
                 wireVars, build, parse, calls, info, peers >>

\* the registry state the functions below work on
Registry == [devices |-> devices, conns |-> conns, scans |-> scans]

\* new DeviceConnection(path) and connect() up to the call of serial.open
NewConnection(path, by) ==
    [path |-> path, serial |-> "opening", connected |-> FALSE, by |-> by,
     writes |-> 0, outcome |-> "pending"]

\* DeviceConnection.disconnect
disconnect(conn) ==
    [conn EXCEPT !.serial = IF @ = "open" THEN "closed" ELSE @,
                 !.connected = FALSE]

\* DeviceManager.disconnectDevice
disconnectDevice(st, path) ==
    IF path \in DOMAIN st.devices
    THEN [st EXCEPT !.conns[st.devices[path]] = disconnect(@),
                    !.devices = MapDelete(@, path)]
    ELSE st

\* DeviceManager.connectDevice up to its await of device.connect()
connectDevice(st, path, by) ==
    [st EXCEPT !.conns = Append(@, NewConnection(path, by))]

\* the second loop of scanDevices: registry paths missing from the listing
RECURSIVE RemoveLoop(_, _, _)
RemoveLoop(st, ttyDevices, paths) ==
    IF paths = <<>> THEN st
    ELSE RemoveLoop(IF /\ Head(paths) \in DOMAIN st.devices
                       /\ Head(paths) \notin Range(ttyDevices)
                    THEN disconnectDevice(st, Head(paths))
                    ELSE st,
                    ttyDevices, Tail(paths))

\* scanDevices from the path at index i of its first loop on: it runs until
\* it awaits a connectDevice, or through the second loop to its return
RECURSIVE ScanLoop(_, _)
ScanLoop(st, k) ==
    LET sc == st.scans[k]
    IN  IF sc.i > Len(sc.ttyDevices)
        THEN [RemoveLoop(st, sc.ttyDevices, PathOrder) EXCEPT
                 !.scans[k].pc = "done"]
        ELSE LET devicePath == sc.ttyDevices[sc.i]
             IN  IF devicePath \in DOMAIN st.devices
                 THEN ScanLoop([st EXCEPT !.scans[k].i = @ + 1,
                                          !.scans[k].known = @ \cup {devicePath}],
                               k)
                 ELSE [connectDevice(st, devicePath, k) EXCEPT
                          !.scans[k].pc = "await",
                          !.scans[k].conn = Len(st.conns) + 1,
                          !.scans[k].attempted = @ \cup {devicePath}]

\* DeviceManager.scanDevices from its call to its first await or its return
scanDevices(st) ==
    LET sc == [ttyDevices |-> SortedListing(listing), i |-> 1, conn |-> 0,
               pc |-> "run", attempted |-> {}, known |-> {},
               stale |-> DOMAIN st.devices \ listing]
    IN  ScanLoop([st EXCEPT !.scans = Append(@, sc)], Len(st.scans) + 1)

\* the scan suspended on the connect of connection c, if any
Awaiting(st, c) ==
    {k \in 1..Len(st.scans) : st.scans[k].pc = "await" /\ st.scans[k].conn = c}

\* the open callback of connection c without error; connect() resolves,
\* connectDevice resumes (devices.set) and returns, and the scan that
\* awaited it goes on with its loop
Opened(st, c) ==
    LET st1 == [st EXCEPT !.conns[c].serial = "open",
                          !.conns[c].connected = TRUE,
                          !.conns[c].outcome = "info",
                          !.devices = MapSet(@, st.conns[c].path, c)]
        waiting == Awaiting(st, c)
    IN  IF waiting = {} THEN st1
        ELSE LET k == CHOOSE k \in waiting : TRUE
             IN  ScanLoop([st1 EXCEPT !.scans[k].i = @ + 1,
                                      !.scans[k].pc = "run"], k)

\* the open callback of connection c with an error; connect() rejects,
\* connectDevice rethrows, and the catch of the scan that awaited it
\* returns []
OpenFailed(st, c) ==
    LET st1 == [st EXCEPT !.conns[c].serial = "closed",
                          !.conns[c].outcome = "error"]
        waiting == Awaiting(st, c)
    IN  IF waiting = {} THEN st1
        ELSE LET k == CHOOSE k \in waiting : TRUE
             IN  [st1 EXCEPT !.scans[k].pc = "failed"]

\* the step takes the registry to st
Become(st) ==
    /\ Len(st.conns) <= MaxConns
    /\ devices' = st.devices
    /\ conns' = st.conns
    /\ scans' = st.scans

RegInit ==
    /\ serial = "null"
    /\ connected = FALSE
    /\ messageId = 0
    /\ pendingRequests = EmptyMap
    /\ reqs = <<>>
    /\ receiveBuffer = <<>>
    /\ rxStream = <<>>
    /\ rxFed = <<>>
    /\ dispatched = <<>>
    /\ codec = IdleCodec
    /\ pingTimer = "none"
    /\ queryTimer = "none"
    /\ written = <<>>
    /\ build = IdleBuild
    /\ parse = IdleParse
    /\ calls = <<>>
    /\ info = IdleInfo
    /\ peers = <<>>
    /\ listing \in SUBSET Paths
    /\ devices = EmptyMap
    /\ conns = <<>>
    /\ scans = <<>>
    /\ scanInterval = 0
    /\ intervals = <<>>
    /\ down = FALSE
    /\ executed = NoExecute

\* a serial device appears in /dev, or disappears from it
Plug(path) ==
    /\ path \notin listing
    /\ listing' = listing \cup {path}
    /\ UNCHANGED << devices, conns, scans, scanInterval, intervals, down, executed, nonRegVars >>

Unplug(path) ==
    /\ path \in listing
    /\ listing' = listing \ {path}
    /\ UNCHANGED << devices, conns, scans, scanInterval, intervals, down, executed, nonRegVars >>

\* the timer state the functions below work on
ScanTimer == [scanInterval |-> scanInterval, intervals |-> intervals]

\* clearInterval
clearInterval(timers, handle) == [timers EXCEPT ![handle] = "cleared"]

\* DeviceManager.stopAutoScan
stopAutoScan(tm) ==
    IF tm.scanInterval # 0
    THEN [scanInterval |-> 0,
          intervals |-> clearInterval(tm.intervals, tm.scanInterval)]
    ELSE tm

\* startAutoScan without the clearInterval of the timer it replaces
startAutoScan_NoClear(tm) ==
    [scanInterval |-> Len(tm.intervals) + 1,
     intervals |-> Append(tm.intervals, "armed")]

\* DeviceManager.startAutoScan up to its call of scanDevices: the timer held
\* is cleared, a new one is made and kept
startAutoScan(tm) ==
    LET cleared == IF tm.scanInterval # 0
                   THEN clearInterval(tm.intervals, tm.scanInterval)
                   ELSE tm.intervals
    IN  [scanInterval |-> Len(cleared) + 1, intervals |-> Append(cleared, "armed")]

\* the step takes the timers to tm
BecomeTimers(tm) ==
    /\ scanInterval' = tm.scanInterval
    /\ intervals' = tm.intervals

\* a call of startAutoScan: the timers, then the initial scan
CallStartAutoScan ==
    /\ Len(scans) < MaxScans
    /\ BecomeTimers(startAutoScan(ScanTimer))
    /\ Become(scanDevices(Registry))
    /\ UNCHANGED << listing, down, executed, nonRegVars >>

\* the server calls startAutoScan while it is up
StartAutoScan ==
    /\ ~down
    /\ CallStartAutoScan

\* a call of stopAutoScan
CallStopAutoScan ==
    /\ BecomeTimers(stopAutoScan(ScanTimer))
    /\ UNCHANGED << listing, devices, conns, scans, down, executed, nonRegVars >>

\* the callback of interval timer t
Tick(t) ==
    /\ intervals[t] = "armed"
    /\ Len(scans) < MaxScans
    /\ Become(scanDevices(Registry))
    /\ UNCHANGED << listing, scanInterval, intervals, down, executed, nonRegVars >>

\* POST /api/devices/scan
ApiScan ==
    /\ ~down
    /\ Len(scans) < MaxScans
    /\ Become(scanDevices(Registry))
    /\ UNCHANGED << listing, scanInterval, intervals, down, executed, nonRegVars >>

\* POST /api/devices/:path/connect
ApiConnect(path) ==
    /\ ~down
    /\ Become(connectDevice(Registry, path, 0))
    /\ UNCHANGED << listing, scanInterval, intervals, down, executed, nonRegVars >>

\* POST /api/devices/:path/disconnect
ApiDisconnect(path) ==
    /\ ~down
    /\ path \in DOMAIN devices
    /\ Become(disconnectDevice(Registry, path))
    /\ UNCHANGED << listing, scanInterval, intervals, down, executed, nonRegVars >>

\* executeRequest that connects the device when the lookup misses
executeRequest_AutoConnect(st, path, method, uri) ==
    [st |-> connectDevice(st, path, 0), error |-> "none"]

\* DeviceManager.executeRequest: the lookup, the test of isConnected, then
\* coap.request on the connection found, which throws for an unknown method
\* and writes one frame to the connection's serial handle otherwise
executeRequest(st, path, method, uri) ==
    IF path \notin DOMAIN st.devices
    THEN [st |-> st, error |-> "Device not found"]
    ELSE LET c == st.devices[path]
             device == st.conns[c]
         IN  IF ~(device.connected /\ device.serial = "open")
             THEN [st |-> st, error |-> "Device not connected"]
             ELSE IF RequestError(method) # "none"
             THEN [st |-> st, error |-> RequestError(method)]
             ELSE [st |-> [st EXCEPT !.conns[c].writes = @ + 1],
                   error |-> "none"]

\* POST /api/devices/:path/coap
ApiExecute(path, method, uri) ==
    LET r == executeRequest(Registry, path, method, uri)
    IN  /\ ~down
        /\ \A c \in 1..Len(r.st.conns) : r.st.conns[c].writes <= MaxRequests
        /\ Become(r.st)
        /\ executed' = [path |-> path, error |-> r.error]
        /\ UNCHANGED << listing, scanInterval, intervals, down, nonRegVars >>

\* the open succeeds only on a device that is there
ConnOpened(c) ==
    /\ conns[c].serial = "opening"
    /\ conns[c].path \in listing
    /\ Become(Opened(Registry, c))
    /\ UNCHANGED << listing, scanInterval, intervals, down, executed, nonRegVars >>

ConnOpenFailed(c) ==
    /\ conns[c].serial = "opening"
    /\ Become(OpenFailed(Registry, c))
    /\ UNCHANGED << listing, scanInterval, intervals, down, executed, nonRegVars >>

\* serial.on('close') of connection c
PortClosed(c) ==
    /\ conns[c].serial = "open"
    /\ conns' = [conns EXCEPT ![c].serial = "closed", ![c].connected = FALSE]
    /\ UNCHANGED << listing, devices, scans, scanInterval, intervals, down, executed, nonRegVars >>

\* serial.on('error') of connection c
PortError(c) ==
    /\ conns[c].serial = "open"
    /\ conns[c].connected
    /\ conns' = [conns EXCEPT ![c].connected = FALSE]
    /\ UNCHANGED << listing, devices, scans, scanInterval, intervals, down, executed, nonRegVars >>

\* DeviceManager.shutdown: stopAutoScan, disconnect of every registered
\* connection, devices.clear()
CallShutdown ==
    /\ down' = TRUE
    /\ BecomeTimers(stopAutoScan(ScanTimer))
    /\ conns' = [c \in 1..Len(conns) |->
                    IF \E path \in DOMAIN devices : devices[path] = c
                    THEN disconnect(conns[c]) ELSE conns[c]]
    /\ devices' = EmptyMap
    /\ UNCHANGED << listing, scans, executed, nonRegVars >>

\* the server shuts down once, on SIGINT or SIGTERM
Shutdown ==
    /\ ~down
    /\ CallShutdown

RegNext ==
    \/ \E path \in Paths : Plug(path)
    \/ \E path \in Paths : Unplug(path)
    \/ StartAutoScan
    \/ \E t \in 1..Len(intervals) : Tick(t)
    \/ ApiScan
    \/ \E path \in Paths : ApiConnect(path)
    \/ \E path \in Paths : ApiDisconnect(path)
    \/ \E c \in 1..Len(conns) : ConnOpened(c)
    \/ \E c \in 1..Len(conns) : ConnOpenFailed(c)
    \/ \E c \in 1..Len(conns) : PortClosed(c)
    \/ \E c \in 1..Len(conns) : PortError(c)
    \/ Shutdown

RegSpec == RegInit /\ [][RegNext]_vars

(***************************************************************************)
(* The DeviceManager serving connect, disconnect and execute calls of the  *)
(* API while ports open, fail and close.                                   *)
(***************************************************************************)
ExecNext ==
    \/ \E path \in Paths : ApiConnect(path)
    \/ \E path \in Paths : ApiDisconnect(path)
    \/ \E path \in Paths, m \in MethodInputs, u \in UriInputs :
          ApiExecute(path, m, u)
    \/ \E c \in 1..Len(conns) : ConnOpened(c)
    \/ \E c \in 1..Len(conns) : ConnOpenFailed(c)
    \/ \E c \in 1..Len(conns) : PortClosed(c)
    \/ \E c \in 1..Len(conns) : PortError(c)

ExecSpec == RegInit /\ [][ExecNext]_vars

(***************************************************************************)
(* The DeviceManager with startAutoScan, stopAutoScan and shutdown called  *)
(* in any order and any number of times, the scans they start and the      *)
(* connections those open.                                                 *)
(***************************************************************************)
AutoScanNext ==
    \/ \E path \in Paths : Plug(path)
    \/ \E path \in Paths : Unplug(path)
    \/ CallStartAutoScan
    \/ CallStopAutoScan
    \/ CallShutdown
    \/ \E t \in 1..Len(intervals) : Tick(t)
    \/ \E c \in 1..Len(conns) : ConnOpened(c)
    \/ \E c \in 1..Len(conns) : ConnOpenFailed(c)

AutoScanSpec == RegInit /\ [][AutoScanNext]_vars

(***************************************************************************)
(* The frame codec on its own: encodeFrame, then decodeFrame of the        *)
(* encoder's output, for every input of CodecInputs.                       *)
(***************************************************************************)
CodecInit ==
    /\ serial = "null"
    /\ connected = FALSE
    /\ messageId = 0
    /\ pendingRequests = EmptyMap
    /\ reqs = <<>>
    /\ receiveBuffer = <<>>
    /\ rxStream = <<>>
    /\ rxFed = <<>>
    /\ dispatched = <<>>
    /\ pingTimer = "none"
    /\ queryTimer = "none"
    /\ written = <<>>
    /\ build = IdleBuild
    /\ parse = IdleParse
    /\ calls = <<>>
    /\ info = IdleInfo
    /\ peers = <<>>
    /\ listing = {}
    /\ devices = EmptyMap
    /\ conns = <<>>
    /\ scans = <<>>
    /\ scanInterval = 0
    /\ intervals = <<>>
    /\ down = FALSE
    /\ executed = NoExecute
    /\ \E i \in CodecInputs :
          codec = [IdleCodec EXCEPT !.pc = "input", !.type = i.type,
                                    !.payload = i.payload]

Encode ==
    /\ codec.pc = "input"
    /\ codec' = [codec EXCEPT !.pc = "encoded",
                              !.frame = encodeFrame(codec.type, codec.payload)]
    /\ UNCHANGED << connVars, trackerVars, receiveBuffer, streamVars,
                    wireVars, build, parse, calls, info, peers, regVars >>

Decode ==
    /\ codec.pc \in {"encoded", "mutated"}
    /\ codec' = [codec EXCEPT !.pc = "decoded",
                              !.decoded = decodeFrame(codec.frame)]
    /\ UNCHANGED << connVars, trackerVars, receiveBuffer, streamVars,
                    wireVars, build, parse, calls, info, peers, regVars >>

CodecNext == Encode \/ Decode

CodecSpec == CodecInit /\ [][CodecNext]_vars

(***************************************************************************)
(* The frame codec on a damaged frame: encodeFrame, one byte before the     *)
(* checksum characters replaced by a different value, then decodeFrame.    *)
(***************************************************************************)
MutateInit ==
    /\ serial = "null"
    /\ connected = FALSE
    /\ messageId = 0
    /\ pendingRequests = EmptyMap
    /\ reqs = <<>>
    /\ receiveBuffer = <<>>
    /\ rxStream = <<>>
    /\ rxFed = <<>>
    /\ dispatched = <<>>
    /\ pingTimer = "none"
    /\ queryTimer = "none"
    /\ written = <<>>
    /\ build = IdleBuild
    /\ parse = IdleParse
    /\ calls = <<>>
    /\ info = IdleInfo
    /\ peers = <<>>
    /\ listing = {}
    /\ devices = EmptyMap
    /\ conns = <<>>
    /\ scans = <<>>
    /\ scanInterval = 0
    /\ intervals = <<>>
    /\ down = FALSE
    /\ executed = NoExecute
    /\ \E i \in MutationInputs :
          codec = [IdleCodec EXCEPT !.pc = "input", !.type = i.type,
                                    !.payload = i.payload]

\* the byte at index pos of the encoded frame arrives as byte
Mutate(pos, byte) ==
    /\ codec.pc = "encoded"
    /\ pos < Len(codec.frame) - 4
    /\ codec.frame[pos + 1] # byte
    /\ codec' = [codec EXCEPT !.pc = "mutated", !.pos = pos,
                              !.frame = [codec.frame EXCEPT ![pos + 1] = byte]]
    /\ UNCHANGED << connVars, trackerVars, receiveBuffer, streamVars,
                    wireVars, build, parse, calls, info, peers, regVars >>

MutateNext ==
    \/ Encode
    \/ \E pos \in 0..(2 * MaxPayloadLen + 3), b \in MutationBytes : Mutate(pos, b)
    \/ Decode

MutateSpec == MutateInit /\ [][MutateNext]_vars

(***************************************************************************)
(* The reassembler on its own: an open connection with no request in       *)
(* flight receives one byte stream of Streams, cut into chunks of every    *)
(* size up to MaxChunk.                                                    *)
(***************************************************************************)
StreamInit ==
    /\ serial = "open"
    /\ connected = TRUE
    /\ messageId = 1
    /\ pendingRequests = EmptyMap
    /\ reqs = <<>>
    /\ receiveBuffer = <<>>
    /\ rxStream \in Streams
    /\ rxFed = <<>>
    /\ dispatched = <<>>
    /\ codec = IdleCodec
    /\ pingTimer = "armed"
    /\ queryTimer = "armed"
    /\ written = <<>>
    /\ build = IdleBuild
    /\ parse = IdleParse
    /\ calls = <<>>
    /\ info = IdleInfo
    /\ peers = <<>>
    /\ listing = {}
    /\ devices = EmptyMap
    /\ conns = <<>>
    /\ scans = <<>>
    /\ scanInterval = 0
    /\ intervals = <<>>
    /\ down = FALSE
    /\ executed = NoExecute

\* serial.on('data') with the next k bytes of the stream
Feed(k) ==
    /\ serial = "open"
    /\ k <= Len(rxStream)
    /\ LET chunk == SubSeq(rxStream, 1, k)
       IN  /\ DataEvent(chunk)
           /\ dispatched' =
                 dispatched \o Dispatches(handleData(receiveBuffer, chunk).frames)
           /\ rxFed' = rxFed \o chunk
           /\ rxStream' = SubSeq(rxStream, k + 1, Len(rxStream))
    /\ UNCHANGED << connVars, codec, wireVars, build, parse, calls, info, peers, regVars >>

StreamNext == \E k \in 1..MaxChunk : Feed(k)

StreamSpec == StreamInit /\ [][StreamNext]_vars

(***************************************************************************)
(* Both directions of one connection: the caller calls request, request    *)
(* timers and the ping timer fire, and the device sends a sequence of      *)
(* frames of Arrivals that reaches the reassembler in chunks of every size *)
(* up to MaxChunk.                                                         *)
(***************************************************************************)
OrderInit ==
    /\ serial = "open"
    /\ connected = TRUE
    /\ messageId = 1
    /\ pendingRequests = EmptyMap
    /\ reqs = <<>>
    /\ receiveBuffer = <<>>
    /\ rxStream \in {ArrivalBytes[a] : a \in Arrivals}
    /\ rxFed = <<>>
    /\ dispatched = <<>>
    /\ codec = IdleCodec
    /\ pingTimer = "armed"
    /\ queryTimer = "fired"
    /\ written = <<>>
    /\ build = IdleBuild
    /\ parse = IdleParse
    /\ calls = <<>>
    /\ info = IdleInfo
    /\ peers = <<>>
    /\ listing = {}
    /\ devices = EmptyMap
    /\ conns = <<>>
    /\ scans = <<>>
    /\ scanInterval = 0
    /\ intervals = <<>>
    /\ down = FALSE
    /\ executed = NoExecute

OrderNext ==
    \/ \E u \in UriInputs : CallRequest("GET", u)
    \/ \E i \in 1..Len(reqs) : TimerFires(i)
    \/ SendPing
    \/ \E k \in 1..MaxChunk : Feed(k)

OrderSpec == OrderInit /\ [][OrderNext]_vars

(***************************************************************************)
(* The message builder on its own: buildMessage for every input of         *)
(* BuildInputs.                                                            *)
(***************************************************************************)
BuildInit ==
    /\ serial = "null"
    /\ connected = FALSE
    /\ messageId = 0
    /\ pendingRequests = EmptyMap
    /\ reqs = <<>>
    /\ receiveBuffer = <<>>
    /\ rxStream = <<>>
    /\ rxFed = <<>>
    /\ dispatched = <<>>
    /\ codec = IdleCodec
    /\ pingTimer = "none"
    /\ queryTimer = "none"
    /\ written = <<>>
    /\ parse = IdleParse
    /\ calls = <<>>
    /\ info = IdleInfo
    /\ peers = <<>>
    /\ listing = {}
    /\ devices = EmptyMap
    /\ conns = <<>>
    /\ scans = <<>>
    /\ scanInterval = 0
    /\ intervals = <<>>
    /\ down = FALSE
    /\ executed = NoExecute
    /\ \E i \in BuildInputs :
          build = [pc |-> "input", methodCode |-> i.methodCode, uri |-> i.uri,
                   payload |-> i.payload, mid |-> i.mid, message |-> <<>>]

BuildMessage ==
    /\ build.pc = "input"
    /\ build' = [build EXCEPT
                    !.pc = "built",
                    !.message = buildMessage(build.methodCode, build.uri,
                                             build.payload, build.mid)]
    /\ UNCHANGED << connVars, trackerVars, receiveBuffer, streamVars, codec,
                    wireVars, parse, calls, info, peers, regVars >>

BuildNext == BuildMessage

BuildSpec == BuildInit /\ [][BuildNext]_vars

(***************************************************************************)
(* The message parser on its own: parseResponse for every message of       *)
(* ParseInputs.                                                            *)
(***************************************************************************)
ParseInit ==
    /\ serial = "null"
    /\ connected = FALSE
    /\ messageId = 0
    /\ pendingRequests = EmptyMap
    /\ reqs = <<>>
    /\ receiveBuffer = <<>>
    /\ rxStream = <<>>
    /\ rxFed = <<>>
    /\ dispatched = <<>>
    /\ codec = IdleCodec
    /\ pingTimer = "none"
    /\ queryTimer = "none"
    /\ written = <<>>
    /\ build = IdleBuild
    /\ calls = <<>>
    /\ info = IdleInfo
    /\ peers = <<>>
    /\ listing = {}
    /\ devices = EmptyMap
    /\ conns = <<>>
    /\ scans = <<>>
    /\ scanInterval = 0
    /\ intervals = <<>>
    /\ down = FALSE
    /\ executed = NoExecute
    /\ \E d \in ParseInputs : parse = [IdleParse EXCEPT !.pc = "input", !.data = d]

ParseResponse ==
    /\ parse.pc = "input"
    /\ parse' = [parse EXCEPT !.pc = "parsed",
                              !.response = parseResponse(parse.data)]
    /\ UNCHANGED << connVars, trackerVars, receiveBuffer, streamVars, codec,
                    wireVars, build, calls, info, peers, regVars >>

ParseNext == ParseResponse

ParseSpec == ParseInit /\ [][ParseNext]_vars

(***************************************************************************)
(* Properties of the request tracker (specification Spec).                 *)
(***************************************************************************)
\* the error the timeout callback of request i rejects with
TimeoutOf(i) ==
    [NoResult EXCEPT !.kind = "RequestTimeout", !.method = reqs[i].method,
                     !.uri = reqs[i].uri]

\* C1: every waiter is settled exactly once: resolve/reject is called at most
\* once on it, and it is not left unsettled for ever. A request whose timer is
\* no longer armed has no handler left that could settle it, so it must be
\* settled by then.
C1_SettledExactlyOnce ==
    \A i \in 1..Len(reqs) :
        /\ reqs[i].calls <= 1
        /\ reqs[i].timer # "armed" => reqs[i].waiter # "pending"

\* C2: a step that takes the connection out of Open (serial error, serial
\* close, disconnect) rejects every pending waiter with Disconnected and
\* leaves the pending map empty.
C2_DisconnectDrain ==
    [][(isConnected /\ ~isConnected') =>
          /\ DOMAIN pendingRequests' = {}
          /\ \A m \in DOMAIN pendingRequests :
                LET i == pendingRequests[m]
                IN  /\ reqs'[i].waiter = "rejected"
                    /\ reqs'[i].result.kind = "Disconnected"]_vars

\* what a response with message-ID m must have done to the tracker: the
\* request recorded in the pending map under m, which was sent with m, is
\* settled by one call and its entry removed; no other waiter and no other
\* entry has changed
SettlesOnly(m) ==
    /\ Len(reqs') = Len(reqs)
    /\ \A i \in 1..Len(reqs) :
          reqs'[i] # reqs[i] =>
             /\ reqs[i].mid = m
             /\ m \in DOMAIN pendingRequests
             /\ pendingRequests[m] = i
    /\ m \in DOMAIN pendingRequests =>
          /\ reqs[pendingRequests[m]].waiter = "pending"
          /\ reqs'[pendingRequests[m]].waiter # "pending"
          /\ reqs'[pendingRequests[m]].calls = 1
          /\ m \notin DOMAIN pendingRequests'
    /\ \A k \in DOMAIN pendingRequests \ {m} :
          /\ k \in DOMAIN pendingRequests'
          /\ pendingRequests'[k] = pendingRequests[k]

\* C3: a response carrying message-ID m settles exactly the pending request
\* that was sent with m and no other (every step that is the arrival of the
\* response frame for m satisfies SettlesOnly(m)).
C3_Correlation ==
    [][\A c \in ResponseCodes, m \in 0..MaxMid :
          SettlesOnly(m) \/ ~SerialData(ResponseFrame[c, m])]_vars

\* C3 witness: of two requests in flight with different message-IDs the later
\* one has been answered and the earlier one is still pending in the map.
C3_Witness ==
    \E i \in 1..Len(reqs), j \in 1..Len(reqs) :
        /\ i < j
        /\ reqs[i].mid # reqs[j].mid
        /\ reqs[j].result.kind \in {"payload", "CoapError"}
        /\ reqs[i].waiter = "pending"
        /\ reqs[i].mid \in DOMAIN pendingRequests
        /\ pendingRequests[reqs[i].mid] = i

\* C4: request never assigns a message-ID that is a key of the pending map, so
\* recording a request never replaces the entry of an unsettled one.
C4_NoIdInUse ==
    [][Len(reqs') = Len(reqs) + 1 =>
          reqs'[Len(reqs')].mid \notin DOMAIN pendingRequests]_vars

\* C5: when the timer of a request that got no response fires, its waiter is
\* rejected with RequestTimeout naming its method and uri, and the pending map
\* holds no entry under its message-ID afterwards.
C5_TimeoutRejects ==
    [][\A i \in 1..Len(reqs) :
          (TimerFires(i) /\ reqs[i].waiter = "pending") =>
             /\ reqs'[i].waiter = "rejected"
             /\ reqs'[i].result = TimeoutOf(i)
             /\ reqs[i].mid \notin DOMAIN pendingRequests']_vars

\* C10: a frame whose checksum does not match is discarded: handing it to the
\* reassembler settles no waiter and changes no pending entry.
C10_BadChecksumDiscarded ==
    [][\A f \in CorruptFrames :
          SerialData(f) => UNCHANGED << pendingRequests, reqs >>]_vars

\* what a matched response with code c must have done to request i: the
\* timer is cancelled, and the waiter is resolved with the payload when the
\* code class is 2 and rejected with code, code name and payload otherwise
SettledBy(i, c) ==
    /\ reqs'[i].timer = "cancelled"
    /\ reqs'[i].calls = 1
    /\ IF c \div 32 = 2
       THEN /\ reqs'[i].waiter = "resolved"
            /\ reqs'[i].result = [NoResult EXCEPT !.kind = "payload",
                                                  !.payload = ResponseBody(c)]
       ELSE /\ reqs'[i].waiter = "rejected"
            /\ reqs'[i].result = [NoResult EXCEPT !.kind = "CoapError",
                                                  !.code = c,
                                                  !.name = codeName(c),
                                                  !.payload = ResponseBody(c)]

\* C24: when a response matches a pending request, its timer is cancelled and
\* its entry removed, and the waiter is resolved with the response payload if
\* and only if the code class is 2; for every other code class it is rejected
\* with an error carrying the numeric code, the code name and the payload.
C24_ResolveIffClass2 ==
    [][\A c \in ResponseCodes, m \in 0..MaxMid :
          \/ m \notin DOMAIN pendingRequests
          \/ /\ m \notin DOMAIN pendingRequests'
             /\ SettledBy(pendingRequests[m], c)
          \/ ~SerialData(ResponseFrame[c, m])]_vars

\* C24 witness: one request was resolved with the payload of a 2.05 response
\* and another rejected with the code, name and payload of a 4.04 response;
\* both timers are cancelled and both entries gone.
C24_Witness ==
    /\ DOMAIN pendingRequests = {}
    /\ \E i \in 1..Len(reqs), j \in 1..Len(reqs) :
          /\ reqs[i].timer = "cancelled"
          /\ reqs[i].waiter = "resolved"
          /\ reqs[i].result.kind = "payload"
          /\ reqs[i].result.payload = <<24>>
          /\ reqs[j].timer = "cancelled"
          /\ reqs[j].waiter = "rejected"
          /\ reqs[j].result.code = 132
          /\ reqs[j].result.name = "4.04 Not Found"

\* C29: the timer armed for a request affects only that request: when it
\* fires, no other request's waiter or timer changes, and no pending entry
\* other than the request's own is removed or changed.
C29_TimerIndependent ==
    [][\A i \in 1..Len(reqs) :
          TimerFires(i) =>
             /\ \A j \in 1..Len(reqs) : j # i => reqs'[j] = reqs[j]
             /\ \A k \in DOMAIN pendingRequests :
                   pendingRequests[k] # i =>
                      /\ k \in DOMAIN pendingRequests'
                      /\ pendingRequests'[k] = pendingRequests[k]]_vars

(***************************************************************************)
(* Properties of the registry (specification RegSpec).                     *)
(***************************************************************************)
\* the connections created by scans for path that are opening or open
ScanCreated(path) ==
    {c \in 1..Len(conns) : /\ conns[c].path = path
                           /\ conns[c].by # 0
                           /\ conns[c].serial \in {"opening", "open"}}

\* C11: overlapping scans never create duplicate connections: at every
\* moment at most one connection created by a scan is opening or open for
\* any given path.
C11_NoDuplicateConnections ==
    \A path \in Paths : Cardinality(ScanCreated(path)) <= 1

\* C12: a scan that has ended has called connectDevice for every path of its
\* listing that it did not find in the registry, whatever became of its
\* other connects.
C12_EveryNewPathAttempted ==
    \A k \in 1..Len(scans) :
        scans[k].pc \in {"done", "failed"} =>
            Range(scans[k].ttyDevices) \subseteq
                scans[k].attempted \cup scans[k].known

\* scan k ends in this step
Ends(k) ==
    /\ k \in 1..Len(scans')
    /\ scans'[k].pc \in {"done", "failed"}
    /\ k \in 1..Len(scans) => scans[k].pc = "await"

\* C13: when a scan ends, every path that was in the registry and missing
\* from the listing the scan ran with is out of the registry.
C13_StaleEntriesRemoved ==
    [][\A k \in 1..MaxScans :
          Ends(k) => \A path \in scans'[k].stale : path \notin DOMAIN devices']_vars

C15_WritesOnlyWhenOpen ==
    [][~isConnected => (written' = written /\ Len(reqs') = Len(reqs))]_vars

(***************************************************************************)
(* Properties of the frame codec (specification CodecSpec).                *)
(***************************************************************************)
\* C6: frame round-trip: decoding the encoder's output returns the type, the
\* payload and checksumValid = true, for every type and payload.
C6_RoundTrip ==
    codec.pc = "decoded" =>
        /\ codec.decoded.ok
        /\ codec.decoded.type = codec.type
        /\ codec.decoded.data = codec.payload
        /\ codec.decoded.valid

\* C7: a Ping with an empty payload encodes to 3E 50 3C 3C followed by the four
\* hex characters of the checksum of 3E 50 3C 3C, and decodes to type 'P', an
\* empty payload and checksumValid = true.
C7_PingFrame ==
    (codec.type = PING /\ codec.payload = <<>>) =>
        /\ codec.pc \in {"encoded", "decoded"} =>
              codec.frame = <<62, 80, 60, 60>> \o
                            ChecksumStr(calculateChecksum(<<62, 80, 60, 60>>))
        /\ codec.pc = "decoded" =>
              /\ codec.decoded.ok
              /\ codec.decoded.type = 80
              /\ codec.decoded.data = <<>>
              /\ codec.decoded.valid

\* the positions (0-based, from i on, before the four checksum characters)
\* of the bytes of a frame that are not the second byte of an escape pair
RECURSIVE UnescapedPositions(_, _)
UnescapedPositions(frame, i) ==
    IF i >= Len(frame) - 4 THEN {}
    ELSE IF frame[i + 1] = ESCAPE
         THEN {i} \cup UnescapedPositions(frame, i + 2)
         ELSE {i} \cup UnescapedPositions(frame, i + 1)

\* C16: in every encoded frame the unescaped 0x3C bytes are exactly the one
\* or two bytes directly before the checksum, and no byte of the frame is
\* 0x00 or 0xFF.
C16_OnlyEofUnescaped ==
    codec.pc \in {"encoded", "decoded"} =>
        LET n == Len(codec.frame)
            eofs == {i \in UnescapedPositions(codec.frame, 2) :
                        codec.frame[i + 1] = EOF}
        IN  /\ n - 5 \in eofs
            /\ eofs \subseteq {n - 6, n - 5}
            /\ \A k \in 1..n : codec.frame[k] # 0 /\ codec.frame[k] # 255

\* C16 witness: a frame has been encoded for a payload that holds 0x3C and
\* one of 0x00, 0xFF.
C16_Witness ==
    /\ codec.pc = "encoded"
    /\ \E k \in 1..Len(codec.payload) : codec.payload[k] = 60
    /\ \E k \in 1..Len(codec.payload) : codec.payload[k] \in {0, 255}

\* the number of bytes the escaped payload takes
EscapedLen(payload) ==
    Len(payload) + Cardinality({k \in 1..Len(payload) : needsEscape(payload[k])})

\* C17: the frame is SOF, type, the escaped payload, then exactly two 0x3C
\* when the byte count up to and including the first 0x3C is even and exactly
\* one otherwise, then the four characters of the checksum of everything
\* from SOF through the last 0x3C.
C17_PaddingRule ==
    codec.pc \in {"encoded", "decoded"} =>
        LET first == 2 + EscapedLen(codec.payload) + 1
            last == IF first % 2 = 0 THEN first + 1 ELSE first
            n == Len(codec.frame)
        IN  /\ n = last + 4
            /\ \A k \in first..last : codec.frame[k] = EOF
            /\ SubSeq(codec.frame, n - 3, n) =
                  ChecksumStr(calculateChecksum(SubSeq(codec.frame, 1, last)))

\* C17 witness: a frame with an escaped payload byte has been encoded with
\* two 0x3C before the checksum.
C17_Witness ==
    /\ codec.pc = "encoded"
    /\ Len(codec.payload) = 2
    /\ needsEscape(codec.payload[1])
    /\ ~needsEscape(codec.payload[2])
    /\ codec.frame[Len(codec.frame) - 5] = EOF
    /\ codec.frame[Len(codec.frame) - 4] = EOF

(***************************************************************************)
(* Properties of the frame codec on damaged frames (MutateSpec).           *)
(***************************************************************************)
\* C18: a frame in which one byte before the checksum characters was
\* replaced by a different value never decodes with checksumValid = true
\* (decodeFrame throws or returns valid = false).
C18_MutationDetected ==
    (codec.pc = "decoded" /\ codec.pos >= 0) =>
        ~(codec.decoded.ok /\ codec.decoded.valid)

(***************************************************************************)
(* Properties of the reassembler (specification StreamSpec).               *)
(***************************************************************************)
\* C8: reassembly is independent of chunking: after any sequence of chunks the
\* frames dispatched so far and the scratch buffer are those of a single
\* handleData call on the same bytes.
C8_ChunkingIndependent ==
    LET whole == handleData(<<>>, rxFed)
    IN  /\ receiveBuffer = whole.buffer
        /\ dispatched = Dispatches(whole.frames)

\* C8 witness: a frame that arrived in several chunks has been dispatched.
C8_Witness ==
    /\ rxStream = <<>>
    /\ Len(rxFed) > MaxChunk
    /\ Len(dispatched) = 1
    /\ receiveBuffer = <<>>

\* C9: the type-'C' frame the encoder produces for a CoAP message yields, in
\* any chunking, exactly one dispatched CoAP parse, of exactly the bytes of the
\* message.
C9_CoapBytesPreserved ==
    \A m \in CoapMessages :
        (rxStream = <<>> /\ rxFed = createCoapFrame(m)) =>
            /\ Len(dispatched) = 1
            /\ DispatchKind(dispatched[1]) = "coap"
            /\ dispatched[1].data = m

(***************************************************************************)
(* Properties of the message builder (specification BuildSpec).            *)
(***************************************************************************)
\* the option numbers a receiver reads from offset i on: each option's delta
\* (with its extension) is added to the number of the option before it; the
\* walk ends at the end of the message or at the payload marker
RECURSIVE OptionNumbers(_, _, _)
OptionNumbers(message, i, prev) ==
    IF i >= Len(message) \/ message[i + 1] = 255 THEN <<>>
    ELSE LET dn == message[i + 1] \div 16
             ln == message[i + 1] % 16
             dx == IF dn = 13 THEN 1 ELSE IF dn = 14 THEN 2 ELSE 0
             lx == IF ln = 13 THEN 1 ELSE IF ln = 14 THEN 2 ELSE 0
             delta == IF dn = 13 THEN message[i + 2] + 13
                      ELSE IF dn = 14
                           THEN message[i + 2] * 256 + message[i + 3] + 269
                      ELSE dn
             length == IF ln = 13 THEN message[i + 2 + dx] + 13
                       ELSE IF ln = 14
                            THEN message[i + 2 + dx] * 256 +
                                 message[i + 3 + dx] + 269
                       ELSE ln
         IN  <<prev + delta>> \o
             OptionNumbers(message, i + 1 + dx + lx + length, prev + delta)

Repeat(x, n) == [k \in 1..n |-> x]

\* C19: in every built message the option numbers, reconstructed by summing
\* the encoded deltas from 0, are non-decreasing and are exactly Uri-Path 11
\* once per path segment, then Content-Format 12, then Uri-Query 15 once per
\* query item.
C19_OptionNumbers ==
    build.pc = "built" =>
        LET nums == OptionNumbers(build.message, 4, 0)
        IN  /\ \A k \in 1..(Len(nums) - 1) : nums[k] <= nums[k + 1]
            /\ \A u \in UriCases :
                  u.uri = build.uri =>
                     nums = Repeat(11, Len(u.segments)) \o <<12>> \o
                            Repeat(15, Len(u.queries))

\* C19 witness: a message built for a URI with two path segments, one of
\* them long enough for an extended length, and two query items.
C19_Witness ==
    /\ build.pc = "built"
    /\ \E u \in UriCases :
          /\ u.uri = build.uri
          /\ Len(u.segments) = 2
          /\ Len(u.queries) = 2
          /\ \E k \in 1..2 : Len(u.segments[k]) >= 13

\* C20: GET /c?d=a with message-ID 0x1234 and no payload is built as
\* 40 01 12 34, B1 'c', 12 01 04, 33 'd=a', with no payload marker.
C20_GetExample ==
    (/\ build.pc = "built"
     /\ build.methodCode = 1
     /\ build.uri = <<47, 99, 63, 100, 61, 97>>
     /\ build.mid = 4660
     /\ build.payload = Null) =>
        /\ build.message =
              <<64, 1, 18, 52, 177, 99, 18, 1, 4, 51, 100, 61, 97>>
        /\ \A k \in 1..Len(build.message) : build.message[k] # 255

\* C20 witness: that message has been built.
C20_Witness ==
    /\ build.pc = "built"
    /\ build.methodCode = 1
    /\ build.uri = <<47, 99, 63, 100, 61, 97>>
    /\ build.mid = 4660
    /\ build.payload = Null
    /\ Len(build.message) = 13

(***************************************************************************)
(* Properties of the message parser (specification ParseSpec).             *)
(***************************************************************************)
\* the digits of n, 0 <= n <= 99, as one or two characters
Digit(d) == SubSeq("0123456789", d + 1, d + 1)

\* class digit, dot, two-digit detail
DottedCode(code) ==
    Digit(code \div 32) \o "." \o
    Digit((code % 32) \div 10) \o Digit((code % 32) % 10)

\* C21: for every response code, parse returns codeClass = code >> 5 and a
\* codeName that is exactly the "C.DD" string of the code.
C21_CodeName ==
    (parse.pc = "parsed" /\ parse.response.ok) =>
        /\ parse.response.codeClass = parse.response.code \div 32
        /\ parse.response.codeName = DottedCode(parse.response.code)

(***************************************************************************)
(* Properties of the entry point of the tracker (specification CallSpec).  *)
(***************************************************************************)
\* C22: each call of request takes the message-ID that follows the ID the
\* previous call took (previous + 1, the largest ID followed by 1), so the IDs
\* of any run of calls no longer than the number of usable IDs are pairwise
\* distinct.
C22_SequentialIds ==
    /\ \A n \in 1..(Len(calls) - 1) :
          calls[n + 1].mid = IF calls[n].mid = MaxMid THEN 1 ELSE calls[n].mid + 1
    /\ \A i \in 1..Len(calls), j \in 1..Len(calls) :
          (i < j /\ j - i < MaxMid) => calls[i].mid # calls[j].mid

\* C22 witness: the IDs have wrapped from the largest ID to 1, and both a
\* request that was sent and a call that threw took part.
C22_Witness ==
    /\ \E n \in 1..(Len(calls) - 1) : calls[n].mid = MaxMid /\ calls[n + 1].mid = 1
    /\ \E n \in 1..Len(calls) : calls[n].error = "none"
    /\ \E n \in 1..Len(calls) : calls[n].error # "none"
    /\ Len(reqs) = MaxRequests

\* C23: message-ID 0 is skipped: no request is built or recorded as pending
\* with message-ID 0, and every ID a call takes lies in 1..MaxMid.
C23_ZeroSkipped ==
    /\ \A n \in 1..Len(calls) : calls[n].mid \in 1..MaxMid
    /\ \A i \in 1..Len(reqs) : reqs[i].mid # 0
    /\ 0 \notin DOMAIN pendingRequests
    /\ \A k \in 1..Len(written) : written[k] # createCoapFrame(
          buildMessage(METHODS("GET"), UriChars("/c"), Null, 0))

\* the methods of CoAPClient.METHODS
KnownMethods == {"GET", "POST", "PUT", "DELETE", "FETCH", "PATCH", "IPATCH"}

\* C28: a call of request whose method (in any letter case) is not one of
\* GET, POST, PUT, DELETE, FETCH, PATCH, IPATCH fails with UnknownMethod: no
\* frame is written to the serial handle, no pending entry is recorded and no
\* timer is armed.
C28_UnknownMethod ==
    [][\A m \in CallMethods, u \in UriInputs :
          (CallRequest(m, u) /\ ToUpperCase(m) \notin KnownMethods) =>
             /\ calls'[Len(calls')].error = "Unknown CoAP method"
             /\ written' = written
             /\ pendingRequests' = pendingRequests
             /\ reqs' = reqs]_vars

\* C28 witness: a call with an unknown method has thrown after a request was
\* sent; that request is the only write, pending entry and timer there is.
C28_Witness ==
    /\ Len(calls) = 2
    /\ calls[1].error = "none"
    /\ calls[2].method = "BREW"
    /\ calls[2].error = "Unknown CoAP method"
    /\ Len(written) = 1
    /\ Len(reqs) = 1
    /\ reqs[1].timer = "armed"
    /\ DOMAIN pendingRequests = {reqs[1].mid}

(***************************************************************************)
(* Properties of the two directions of a connection (OrderSpec).           *)
(***************************************************************************)
\* the frames of type 'C' among the writes to the serial handle, in order
CoapWrites == SelectSeq(written, LAMBDA f : f[2] = COAP)

\* the frame of the n-th call of request
FrameOfCall(n) ==
    createCoapFrame(buildMessage(METHODS(ToUpperCase(calls[n].method)),
                                 UriChars(calls[n].uri), Null, calls[n].mid))

\* the frames the device has sent or will send, of which rxFed has arrived
Sent == CHOOSE a \in Arrivals : ArrivalBytes[a] = rxFed \o rxStream

\* C25: request frames are written to the serial handle in the order in which
\* request is called, each frame whole in one write, and inbound frames are
\* dispatched in the order in which they arrive: none is dispatched before an
\* earlier one, and all are once the last byte has arrived.
C25_Ordering ==
    /\ Len(CoapWrites) = Len(calls)
    /\ \A n \in 1..Len(calls) : CoapWrites[n] = FrameOfCall(n)
    /\ Len(dispatched) <= Len(Sent)
    /\ \A k \in 1..Len(dispatched) :
          /\ dispatched[k].type = Sent[k].type
          /\ dispatched[k].data = Sent[k].data
    /\ rxStream = <<>> => Len(dispatched) = Len(Sent)

\* C25 witness: two requests were written with a ping between them, and two
\* different frames that arrived cut into chunks were both dispatched.
C25_Witness ==
    /\ Len(calls) = 2
    /\ Len(written) = 3
    /\ written[2] = createPing
    /\ Len(dispatched) = 2
    /\ dispatched[1].data # dispatched[2].data
    /\ rxStream = <<>>

\* the frames dispatched by the step
NewlyDispatched ==
    {dispatched'[k] : k \in (Len(dispatched) + 1)..Len(dispatched')}

\* C30: a CoAP response whose message-ID is not a key of the pending map
\* (unsolicited, duplicate, or late) is dropped: a step that dispatches only
\* such responses leaves the pending map, all timers and all waiters as they
\* were.
C30_UnmatchedDropped ==
    [][(/\ NewlyDispatched # {}
        /\ \A d \in NewlyDispatched :
              /\ d.type = COAP
              /\ parseResponse(d.data).messageId \notin DOMAIN pendingRequests)
          => (pendingRequests' = pendingRequests /\ reqs' = reqs)]_vars

\* C30 witness: the response to message-ID 1 was dispatched twice and the
\* request sent with ID 1 was settled by one call, so the other copy was
\* dropped; the second request is still pending with its timer armed.
C30_Witness ==
    /\ Len(dispatched) = 2
    /\ dispatched[1] = dispatched[2]
    /\ dispatched[1].type = COAP
    /\ parseResponse(dispatched[1].data).messageId = 1
    /\ Len(reqs) = 2
    /\ reqs[1].mid = 1
    /\ reqs[1].waiter = "resolved"
    /\ reqs[1].calls = 1
    /\ reqs[2].waiter = "pending"
    /\ reqs[2].timer = "armed"
    /\ DOMAIN pendingRequests = {reqs[2].mid}

(***************************************************************************)
(* Properties of the periodic scan (specification AutoScanSpec).           *)
(***************************************************************************)
\* the interval timers that are armed
Armed == {t \in 1..Len(intervals) : intervals[t] = "armed"}

\* C26: after any sequence of startAutoScan, stopAutoScan and shutdown calls
\* at most one periodic scan timer is armed, the one the manager holds: a
\* startAutoScan cancels the timer held before, arms a new one and performs
\* one immediate scan, and after stopAutoScan no timer is armed.
C26_OneScanTimer ==
    [][/\ Armed' = IF scanInterval' = 0 THEN {} ELSE {scanInterval'}
       /\ Len(intervals') > Len(intervals) =>
             /\ Armed' = {Len(intervals')}
             /\ Len(scans') = Len(scans) + 1
       /\ (scanInterval # 0 /\ scanInterval' = 0) => Armed' = {}]_vars

\* C26 witness: startAutoScan was called while a periodic scan was armed; the
\* earlier timer is cleared, the later one armed, and both initial scans ran.
C26_Witness ==
    /\ Len(intervals) = 2
    /\ intervals[1] = "cleared"
    /\ intervals[2] = "armed"
    /\ scanInterval = 2
    /\ Len(scans) = 2

(***************************************************************************)
(* Properties of execute (specification ExecSpec).                         *)
(***************************************************************************)
\* C27: execute on a path that is not in the registry fails with
\* DeviceNotFound, which its caller gets; it writes to no serial handle (no
\* connection's write count changes) and leaves the registry mapping
\* unchanged; and no execute, found or not, adds or removes a registry entry.
C27_ExecuteNotFound ==
    [][\A path \in Paths, m \in MethodInputs, u \in UriInputs :
          ApiExecute(path, m, u) =>
             /\ devices' = devices
             /\ path \notin DOMAIN devices =>
                   /\ executed'.error = "Device not found"
                   /\ conns' = conns]_vars

\* C27 witness: the latest execute missed the registry while the other path
\* was registered and had been written to.
C27_Witness ==
    /\ executed.error = "Device not found"
    /\ executed.path \notin DOMAIN devices
    /\ \E path \in DOMAIN devices : conns[devices[path]].writes > 0

(***************************************************************************)
(* The reassembler fed streams that hold bytes which are no frame: a       *)
(* frame the device never finishes, and an offending frame followed by an  *)
(* intact one (specification NoiseSpec).                                   *)
(***************************************************************************)
\* the cap on the size of one frame, scaled down
FrameMaxBytes == 16

\* the intact frame that follows the offending bytes, and its CoAP message
FollowerMessage == ResponseMessage(69, 1, <<24>>)
Follower == createCoapFrame(FollowerMessage)

\* a frame the device never finishes: SOF, a type, and payload bytes with no
\* EOF, more of them than the cap and one chunk hold
Flood == <<SOF, TRACE>> \o [i \in 1..(FrameMaxBytes + MaxChunk) |-> 65]

\* offending bytes: a frame whose checksum does not match, bytes with no SOF,
\* a frame of fewer than 8 bytes, and a frame cut off before its EOF
Offenders ==
    {CorruptChecksum(createCoapFrame(ResponseMessage(69, 2, <<>>))),
     <<65, 66>>,
     <<SOF, ANNOUNCEMENT, EOF>>,
     <<SOF, COAP, 96, 69>>}

NoiseStreams == {o \o Follower : o \in Offenders} \cup {Flood}

NoiseInit ==
    /\ serial = "open"
    /\ connected = TRUE
    /\ messageId = 1
    /\ pendingRequests = EmptyMap
    /\ reqs = <<>>
    /\ receiveBuffer = <<>>
    /\ rxStream \in NoiseStreams
    /\ rxFed = <<>>
    /\ dispatched = <<>>
    /\ codec = IdleCodec
    /\ pingTimer = "armed"
    /\ queryTimer = "armed"
    /\ written = <<>>
    /\ build = IdleBuild
    /\ parse = IdleParse
    /\ calls = <<>>
    /\ info = IdleInfo
    /\ peers = <<>>
    /\ listing = {}
    /\ devices = EmptyMap
    /\ conns = <<>>
    /\ scans = <<>>
    /\ scanInterval = 0
    /\ intervals = <<>>
    /\ down = FALSE
    /\ executed = NoExecute

NoiseNext == \E k \in 1..MaxChunk : Feed(k)

NoiseSpec == NoiseInit /\ [][NoiseNext]_vars

\* C31: the buffer the reassembler keeps between 'data' events never holds
\* more bytes than the maximum frame size plus the chunk size.
C31_ScratchCapped == Len(receiveBuffer) <= FrameMaxBytes + MaxChunk

\* the stream delivered so far ends with the intact frame
EndsWithFollower ==
    /\ Len(rxFed) >= Len(Follower)
    /\ SubSeq(rxFed, Len(rxFed) - Len(Follower) + 1, Len(rxFed)) = Follower

\* C32: once the whole stream is delivered, the intact frame that begins at
\* an SOF after the offending bytes has been extracted and dispatched as the
\* CoAP message it carries, whatever the offending bytes were.
C32_Resynchronises ==
    (rxStream = <<>> /\ EndsWithFollower) =>
        \E k \in 1..Len(dispatched) :
            /\ dispatched[k].type = COAP
            /\ dispatched[k].data = FollowerMessage

(***************************************************************************)
(* Dispatch by frame type (specification StreamSpec).                      *)
(***************************************************************************)
\* the event each of the five frame types is to be surfaced as
EventOfType(type) ==
    CASE type = COAP -> "coap"
      [] type = ANNOUNCEMENT -> "announcement"
      [] type = TRACE -> "trace"
      [] type = PING -> "pong"
      [] type = SYSTEM -> "system"

\* C33: every decoded frame is dispatched according to its type, for each of
\* the five types: once a stream that is one intact frame of type t (with
\* the one-byte payload 'A') is delivered, a frame of type t has been
\* dispatched as the event of its type; and a stream of frames of types
\* other than 'C' leaves the pending map as it was.
C33_DispatchByType ==
    \A t \in COMMANDS :
        (rxStream = <<>> /\ rxFed = encodeFrame(t, <<65>>)) =>
            /\ \E k \in 1..Len(dispatched) :
                  /\ dispatched[k].type = t
                  /\ DispatchKind(dispatched[k]) = EventOfType(t)
            /\ t # COAP => pendingRequests = EmptyMap

(***************************************************************************)
(* Escapes in decodeFrame (specification CodecSpec).                       *)
(***************************************************************************)
\* a walk of the frame from index i that honours escapes: the byte after an
\* escape byte is payload data (its unescape-table value), and the first
\* 0x3C that follows no escape byte ends the payload; returns the payload
\* and the index of that 0x3C (-1 if there is none before the checksum)
RECURSIVE EscapeWalk(_, _, _)
EscapeWalk(buffer, i, data) ==
    IF ~(i < Len(buffer) - 4) THEN [data |-> data, eof |-> -1]
    ELSE LET byte == buffer[i + 1]
         IN  IF byte = ESCAPE /\ i + 1 < Len(buffer) - 4
             THEN EscapeWalk(buffer, i + 2,
                             Append(data, UNESCAPE_MAP(buffer[i + 2])))
             ELSE IF byte = EOF THEN [data |-> data, eof |-> i]
             ELSE EscapeWalk(buffer, i + 1, Append(data, byte))

\* C34: decodeFrame honours escapes: the payload it returns is the one of the
\* walk in which an escaped byte (an escaped 0x3C included) is payload data,
\* and the checksum it reads is the four characters after the first
\* unescaped 0x3C (after the second, when two follow each other).
C34_EscapesHonoured ==
    (codec.pc = "decoded" /\ codec.decoded.ok) =>
        LET w == EscapeWalk(codec.frame, 2, <<>>)
            checksumStart == IF At(codec.frame, w.eof + 1) = EOF
                             THEN w.eof + 2 ELSE w.eof + 1
        IN  /\ w.eof # -1
            /\ codec.decoded.data = w.data
            /\ codec.decoded.checksum =
                  AsciiUpperStr(Slice(codec.frame, checksumStart, checksumStart + 4))

(***************************************************************************)
(* A failed serial open (specification ExecSpec).                          *)
(***************************************************************************)
\* C35: when the open of a connection fails, the connection ends closed with
\* connected = false, its connectDevice throws the error to its caller, no
\* registry entry is added, and a request to its path then fails with
\* "Device not found".
C35_OpenFailure ==
    [][\A c \in 1..Len(conns) :
          ConnOpenFailed(c) =>
             /\ conns'[c].serial = "closed"
             /\ ~conns'[c].connected
             /\ conns'[c].outcome = "error"
             /\ devices' = devices
             /\ executeRequest([devices |-> devices', conns |-> conns',
                                scans |-> scans'],
                               conns[c].path, "GET", "/c").error
                   = "Device not found"]_vars

(***************************************************************************)
(* parseDeviceInfo on its own: one call for every tree of Trees, on a      *)
(* deviceInfo fresh from the constructor or left by an earlier query.      *)
(***************************************************************************)
InfoInit ==
    /\ serial = "null"
    /\ connected = FALSE
    /\ messageId = 0
    /\ pendingRequests = EmptyMap
    /\ reqs = <<>>
    /\ receiveBuffer = <<>>
    /\ rxStream = <<>>
    /\ rxFed = <<>>
    /\ dispatched = <<>>
    /\ codec = IdleCodec
    /\ pingTimer = "none"
    /\ queryTimer = "none"
    /\ written = <<>>
    /\ build = IdleBuild
    /\ parse = IdleParse
    /\ calls = <<>>
    /\ peers = <<>>
    /\ listing = {}
    /\ devices = EmptyMap
    /\ conns = <<>>
    /\ scans = <<>>
    /\ scanInterval = 0
    /\ intervals = <<>>
    /\ down = FALSE
    /\ executed = NoExecute
    /\ \E t \in Trees, d \in {ConstructedInfo, QueriedInfo} :
          info = [pc |-> "input", yangData |-> t, before |-> d, deviceInfo |-> d]

\* queryDeviceInfo from the point where coap.get has resolved with the tree
QueryResolved ==
    /\ info.pc = "input"
    /\ info' = [info EXCEPT !.pc = "parsed",
                            !.deviceInfo = parseDeviceInfo(info.deviceInfo,
                                                           info.yangData)]
    /\ UNCHANGED << connVars, trackerVars, receiveBuffer, streamVars, codec,
                    wireVars, build, parse, calls, peers, regVars >>

InfoNext == QueryResolved

InfoSpec == InfoInit /\ [][InfoNext]_vars

\* the value of a field of deviceInfo, "absent" being that of a key it lacks
FieldOf(deviceInfo, field) ==
    IF field \in DOMAIN deviceInfo THEN <<deviceInfo[field]>> ELSE <<>>

\* the tree holds obj[k1][k2]
HasPath2(obj, k1, k2) == k1 \in DOMAIN obj /\ k2 \in DOMAIN obj[k1]

\* the tree holds the source key of the field
SourceKeyPresent(yangData, field) ==
    CASE field = "model" ->
            /\ HasPath2(yangData, "ietf-system:system-state", "platform")
            /\ "os-name" \in DOMAIN yangData["ietf-system:system-state"]["platform"]
      [] field = "firmware" ->
            /\ HasPath2(yangData, "ietf-system:system-state", "platform")
            /\ "os-version" \in DOMAIN yangData["ietf-system:system-state"]["platform"]
      [] field = "serialNumber" ->
            /\ HasPath2(yangData, "ietf-system:system-state", "platform")
            /\ "machine" \in DOMAIN yangData["ietf-system:system-state"]["platform"]
      [] field = "interfaces" ->
            HasPath2(yangData, "ietf-interfaces:interfaces", "interface")
      [] field = "bridges" ->
            HasPath2(yangData, "ieee802-dot1q-bridge:bridges", "bridge")

InfoFields == {"model", "firmware", "serialNumber", "interfaces", "bridges"}

\* C36: after a query, every Device Info field whose source key is absent
\* from the returned tree has the value it had before the query.
C36_MissingKeysKeepValues ==
    info.pc = "parsed" =>
        \A field \in InfoFields :
            ~SourceKeyPresent(info.yangData, field) =>
                FieldOf(info.deviceInfo, field) = FieldOf(info.before, field)

(***************************************************************************)
(* Two Device Connections side by side, each with the CoAP client its open *)
(* callback constructed (specification PairSpec).                          *)
(*   peers[d] : serial, connected, and the client's messageId,             *)
(*              pendingRequests, reqs and receiveBuffer                    *)
(***************************************************************************)
\* new CoAPClient(protocol, serial) in the open callback, with the value
\* Math.random() gave its messageId
NewClient(id) ==
    [serial |-> "open", connected |-> TRUE, messageId |-> id,
     pendingRequests |-> EmptyMap, reqs |-> <<>>, receiveBuffer |-> <<>>]

\* CoAPClient.request on client cl, for a known method
clientRequest(cl, method, uri) ==
    LET rec == RecordPending(cl.pendingRequests, cl.reqs, cl.messageId, method, uri)
    IN  [cl EXCEPT !.messageId = NextMessageId(@),
                   !.pendingRequests = rec.pending,
                   !.reqs = rec.reqs]

\* CoAPClient.handleData on client cl
clientHandleData(cl, data) ==
    LET r == handleData(cl.receiveBuffer, data)
        t == ApplyFrames(cl.pendingRequests, cl.reqs, r.frames)
    IN  [cl EXCEPT !.receiveBuffer = r.buffer,
                   !.pendingRequests = t.pending,
                   !.reqs = t.reqs]

\* the timeout callback of request i of client cl
clientTimeout(cl, i) ==
    LET t == TimeoutHandler(cl.pendingRequests, cl.reqs, i)
    IN  [cl EXCEPT !.pendingRequests = t.pending, !.reqs = t.reqs]

\* the 'data' handler with one client for all connections: the bytes that
\* arrive on one serial handle are handled against every pending map
onData_SharedClient(ps, d, data) ==
    [e \in 1..Len(ps) |-> clientHandleData(ps[e], data)]

\* serial.on('data', (data) => this.coap.handleData(data)) of connection d
onData(ps, d, data) == [ps EXCEPT ![d] = clientHandleData(@, data)]

PairInit ==
    /\ serial = "null"
    /\ connected = FALSE
    /\ messageId = 0
    /\ pendingRequests = EmptyMap
    /\ reqs = <<>>
    /\ receiveBuffer = <<>>
    /\ rxStream = <<>>
    /\ rxFed = <<>>
    /\ dispatched = <<>>
    /\ codec = IdleCodec
    /\ pingTimer = "none"
    /\ queryTimer = "none"
    /\ written = <<>>
    /\ build = IdleBuild
    /\ parse = IdleParse
    /\ calls = <<>>
    /\ info = IdleInfo
    /\ listing = {}
    /\ devices = EmptyMap
    /\ conns = <<>>
    /\ scans = <<>>
    /\ scanInterval = 0
    /\ intervals = <<>>
    /\ down = FALSE
    /\ executed = NoExecute
    /\ \E a \in 0..(MaxMid - 1), b \in 0..(MaxMid - 1) :
          peers = <<NewClient(a), NewClient(b)>>

pairRest == << connVars, trackerVars, receiveBuffer, streamVars, codec,
               wireVars, build, parse, calls, info, regVars >>

\* executeRequest on connection d
PeerRequest(d) ==
    /\ peers[d].connected /\ peers[d].serial = "open"
    /\ Len(peers[d].reqs) < MaxPeerRequests
    /\ peers' = [peers EXCEPT ![d] = clientRequest(@, "GET", "/c")]
    /\ UNCHANGED pairRest

\* the device of connection d sends one whole frame
PeerData(d, frame) ==
    /\ peers[d].serial = "open"
    /\ peers' = onData(peers, d, frame)
    /\ UNCHANGED pairRest

\* the timeout callback of request i of connection d fires
PeerTimerFires(d, i) ==
    /\ peers[d].reqs[i].timer = "armed"
    /\ peers' = [peers EXCEPT ![d] = clientTimeout(@, i)]
    /\ UNCHANGED pairRest

\* DeviceConnection.disconnect of connection d
PeerDisconnect(d) ==
    /\ peers[d].serial = "open"
    /\ peers' = [peers EXCEPT ![d].serial = "closed", ![d].connected = FALSE]
    /\ UNCHANGED pairRest

PairNext ==
    \/ \E d \in 1..2 : PeerRequest(d)
    \/ \E d \in 1..2, f \in ResponseFrames : PeerData(d, f)
    \/ \E d \in 1..2 : \E i \in 1..Len(peers[d].reqs) : PeerTimerFires(d, i)
    \/ \E d \in 1..2 : PeerDisconnect(d)

PairSpec == PairInit /\ [][PairNext]_vars

\* the pending-request state of connection e
PendingState(ps, e) == << ps[e].pendingRequests, ps[e].reqs >>

\* C37: a response, a timeout or a disconnect on one connection leaves the
\* pending map and every request (waiter, result, timer) of the other
\* connection as they were, also when both connections have a request
\* pending under the same message-ID.
C37_PerConnection ==
    [][\A d \in 1..2 :
          (\/ \E f \in ResponseFrames : PeerData(d, f)
           \/ \E i \in 1..Len(peers[d].reqs) : PeerTimerFires(d, i)
           \/ PeerDisconnect(d)) =>
             PendingState(peers', 3 - d) = PendingState(peers, 3 - d)]_vars

\* C37 witness: both connections sent a request under the same message-ID;
\* the one of connection 1 was settled by a response, the one of connection
\* 2 is still pending.
C37_Witness ==
    /\ Len(peers[1].reqs) = 1 /\ Len(peers[2].reqs) = 1
    /\ peers[1].reqs[1].mid = peers[2].reqs[1].mid
    /\ peers[1].reqs[1].waiter = "resolved"
    /\ peers[2].reqs[1].waiter = "pending"
    /\ peers[2].reqs[1].mid \in DOMAIN peers[2].pendingRequests

(***************************************************************************)
(* Open connections and the registry (specification RegSpec).              *)
(***************************************************************************)
\* C38: every connection whose serial handle is open is the registry's
\* entry for its path.
C38_NoOrphanedConnection ==
    \A c \in 1..Len(conns) :
        conns[c].serial = "open" =>
            /\ conns[c].path \in DOMAIN devices
            /\ devices[conns[c].path] = c

\* the registry holds an Open connection for the path
HoldsOpen(devs, cs, path) ==
    /\ path \in DOMAIN devs
    /\ cs[devs[path]].connected
    /\ cs[devs[path]].serial = "open"

(***************************************************************************)
(* Periodic scanning while every listed path stays listed and every serial *)
(* open succeeds (specification LiveSpec). The interval timer keeps        *)
(* firing and an open that was started completes, hence the fairness       *)
(* conditions. A scan that returns within the step that started it leaves  *)
(* no record in scans, so that the timer can fire any number of times.     *)
(***************************************************************************)
\* the callback of interval timer t
PeriodicScan(t) ==
    /\ intervals[t] = "armed"
    /\ LET st == scanDevices(Registry)
           returned == st.scans[Len(st.scans)].pc \in {"done", "failed"}
       IN  /\ Len(st.scans) <= (IF returned THEN MaxScans + 1 ELSE MaxScans)
           /\ Become(IF returned THEN [st EXCEPT !.scans = scans] ELSE st)
    /\ UNCHANGED << listing, scanInterval, intervals, down, executed, nonRegVars >>

LiveNext ==
    \/ CallStartAutoScan
    \/ \E t \in 1..Len(intervals) : PeriodicScan(t)
    \/ \E c \in 1..Len(conns) : ConnOpened(c)
    \/ \E c \in 1..Len(conns) : PortClosed(c)
    \/ \E c \in 1..Len(conns) : PortError(c)

LiveSpec ==
    /\ RegInit
    /\ [][LiveNext]_vars
    /\ WF_vars(\E t \in 1..Len(intervals) : PeriodicScan(t))
    /\ WF_vars(\E c \in 1..Len(conns) : ConnOpened(c))

\* C39: the registry keeps no dead entry for a live path: when every listed
\* path is registered and the entry of one of them is not Open (a serial
\* error or close event took its connection out of Open), the registry
\* eventually holds an Open connection for that path again.
C39_DeadEntryRevived ==
    \A path \in Paths :
        (/\ listing \subseteq DOMAIN devices
         /\ path \in listing
         /\ scanInterval # 0
         /\ ~HoldsOpen(devices, conns, path))
            ~> HoldsOpen(devices, conns, path)

====
